---- MODULE Spec2Model ----
(***************************************************************************)
(* A model of the AP 3.0 patch engine (implementation/ap.py): the matcher  *)
(* smart_find, the locator find_target_in_content and the planner / commit *)
(* phases of apply_patch.                                                   *)
(*                                                                         *)
(* Text is a sequence of one-character strings; offsets are 0-based as in  *)
(* the Python source, and Slice(s, a, b) is s[a:b].                         *)
(***************************************************************************)
EXTENDS Integers, Sequences, FiniteSets, TLC

(***************************************************************************)
(* Characters and Python string primitives                                 *)
(***************************************************************************)
LF == <<"\n">>
CR == <<"\r">>
CRLF == <<"\r", "\n">>

\* The value of an absent dictionary key / Python None. It is a sequence so
\* that it can be compared with texts, and no text equals it.
None == <<"None">>

\* the characters str.strip() removes
Whitespace == {" ", "\t", "\n", "\r"}

Min(a, b) == IF a < b THEN a ELSE b
Max(a, b) == IF a > b THEN a ELSE b

\* s[a:b] with 0 <= a, clipped like a Python slice
Slice(s, a, b) == SubSeq(s, Max(a, 0) + 1, Min(b, Len(s)))

\* not s.strip()
IsBlank(s) == \A i \in 1..Len(s) : s[i] \in Whitespace

\* s.strip()
Strip(s) ==
    IF IsBlank(s) THEN <<>>
    ELSE LET first == CHOOSE i \in 1..Len(s) :
                          s[i] \notin Whitespace /\ \A j \in 1..(i - 1) : s[j] \in Whitespace
             last  == CHOOSE i \in 1..Len(s) :
                          s[i] \notin Whitespace /\ \A j \in (i + 1)..Len(s) : s[j] \in Whitespace
         IN SubSeq(s, first, last)

\* variant: lines keep their trailing spaces and tabs
RStripSpaceTab_Keep(s) == s

\* s.rstrip(' \t')
RStripSpaceTab(s) ==
    LET keep == {i \in 1..Len(s) : s[i] \notin {" ", "\t"}}
    IN IF keep = {} THEN <<>>
       ELSE SubSeq(s, 1, CHOOSE i \in keep : \A j \in keep : j <= i)

\* s.startswith(p), s.endswith(p)
StartsWith(s, p) == Len(p) <= Len(s) /\ SubSeq(s, 1, Len(p)) = p
EndsWith(s, p) == Len(p) <= Len(s) /\ SubSeq(s, Len(s) - Len(p) + 1, Len(s)) = p

\* "".join(parts) and sep.join(parts)
RECURSIVE Concat(_)
Concat(parts) == IF parts = <<>> THEN <<>> ELSE Head(parts) \o Concat(Tail(parts))

RECURSIVE Join(_, _)
Join(sep, parts) ==
    IF parts = <<>> THEN <<>>
    ELSE IF Len(parts) = 1 THEN parts[1]
    ELSE parts[1] \o sep \o Join(sep, Tail(parts))

\* s.split('\n'): always at least one piece, a trailing '\n' gives a final ''
RECURSIVE SplitLF(_)
SplitLF(s) ==
    LET nl == {i \in 1..Len(s) : s[i] = "\n"}
    IN IF nl = {} THEN <<s>>
       ELSE LET i == CHOOSE k \in nl : \A j \in nl : k <= j
            IN <<SubSeq(s, 1, i - 1)>> \o SplitLF(SubSeq(s, i + 1, Len(s)))

\* s.splitlines(keepends=True): lines end at "\r\n", "\n" or "\r"; no
\* empty last line
RECURSIVE SplitLinesKeep(_)
SplitLinesKeep(s) ==
    LET brk == {i \in 1..Len(s) : s[i] \in {"\n", "\r"}}
    IN IF s = <<>> THEN <<>>
       ELSE IF brk = {} THEN <<s>>
       ELSE LET i == CHOOSE k \in brk : \A j \in brk : k <= j
                e == IF s[i] = "\r" /\ i < Len(s) /\ s[i + 1] = "\n" THEN i + 1 ELSE i
            IN <<SubSeq(s, 1, e)>> \o SplitLinesKeep(SubSeq(s, e + 1, Len(s)))

\* a line without its terminator
DropEnd(line) ==
    IF EndsWith(line, CRLF) THEN SubSeq(line, 1, Len(line) - 2)
    ELSE IF EndsWith(line, LF) \/ EndsWith(line, CR) THEN SubSeq(line, 1, Len(line) - 1)
    ELSE line

\* s.splitlines()
SplitLines(s) == LET k == SplitLinesKeep(s) IN [i \in 1..Len(k) |-> DropEnd(k[i])]

\* [f(x) for x in seq if keep(x)] building blocks
RECURSIVE NonBlankOnly(_)
NonBlankOnly(lines) ==
    IF lines = <<>> THEN <<>>
    ELSE IF IsBlank(Head(lines)) THEN NonBlankOnly(Tail(lines))
    ELSE <<Head(lines)>> \o NonBlankOnly(Tail(lines))

StripEach(lines) == [i \in 1..Len(lines) |-> Strip(lines[i])]

\* s.replace('\r\n', '\n').replace('\r', '\n')
RECURSIVE ToInternal(_)
ToInternal(s) ==
    IF s = <<>> THEN <<>>
    ELSE IF s[1] = "\r" /\ Len(s) > 1 /\ s[2] = "\n" THEN LF \o ToInternal(SubSeq(s, 3, Len(s)))
    ELSE IF s[1] = "\r" THEN LF \o ToInternal(Tail(s))
    ELSE <<s[1]>> \o ToInternal(Tail(s))

\* s.find(c, from) and s.rfind(c, 0, to) for a one-character c, -1 if absent
Find(s, c, from) ==
    LET hit == {i \in Max(from, 0)..(Len(s) - 1) : s[i + 1] = c}
    IN IF hit = {} THEN -1 ELSE CHOOSE i \in hit : \A j \in hit : i <= j

RFind(s, c, to) ==
    LET end == IF to < 0 THEN Max(to + Len(s), 0) ELSE Min(to, Len(s))
        hit == {i \in 0..(end - 1) : s[i + 1] = c}
    IN IF hit = {} THEN -1 ELSE CHOOSE i \in hit : \A j \in hit : j <= i

\* Python truthiness of an optional string, and (x or "")
Truthy(x) == x # None /\ x # <<>>
OrEmpty(x) == IF x = None THEN <<>> ELSE x

(***************************************************************************)
(* smart_find: the whitespace- and blank-line-tolerant matcher             *)
(***************************************************************************)
\* [line.strip() for line in (snippet or "").strip().splitlines() if line.strip()]
StrippedLines(text) == StripEach(NonBlankOnly(SplitLines(Strip(OrEmpty(text)))))

\* The while loop of smart_find: from line j (1-based) collect non-blank
\* lines until k are found or the lines run out; end is the last line visited.
RECURSIVE Consume(_, _, _, _, _)
Consume(lines, j, found, endIdx, k) ==
    IF Len(found) < k /\ j <= Len(lines)
    THEN Consume(lines, j + 1,
                 IF IsBlank(lines[j]) THEN found ELSE Append(found, lines[j]), j, k)
    ELSE [found |-> found, end |-> endIdx]

\* variant: the first line must equal the first snippet line
MatchAt_HeadEqual(lines, i, nsnip) ==
    IF IsBlank(lines[i]) THEN <<>>
    ELSE LET c == Consume(lines, i, <<>>, i - 1, Len(nsnip))
         IN IF Len(c.found) = Len(nsnip) /\ StripEach(c.found) = nsnip
            THEN <<[start |-> Len(Concat(SubSeq(lines, 1, i - 1))),
                    end |-> Len(Concat(SubSeq(lines, 1, c.end)))]>>
            ELSE <<>>

\* the body of the for loop of smart_find for line i: <<(start, end)>> or <<>>
MatchAt(lines, i, nsnip) ==
    IF IsBlank(lines[i]) THEN <<>>
    ELSE LET c == Consume(lines, i, <<>>, i - 1, Len(nsnip))
             norm == StripEach(c.found)
         IN IF Len(c.found) = Len(nsnip)
               /\ EndsWith(norm[1], nsnip[1])
               /\ Tail(norm) = Tail(nsnip)
            THEN <<[start |-> Len(Concat(SubSeq(lines, 1, i - 1))),
                    end |-> Len(Concat(SubSeq(lines, 1, c.end)))]>>
            ELSE <<>>

RECURSIVE MatchFrom(_, _, _)
MatchFrom(lines, i, nsnip) ==
    IF i > Len(lines) THEN <<>>
    ELSE MatchAt(lines, i, nsnip) \o MatchFrom(lines, i + 1, nsnip)

smart_find(content, snippet) ==
    LET original_lines == SplitLinesKeep(content)
        normalized_snippet_lines == StrippedLines(snippet)
    IN IF normalized_snippet_lines = <<>> THEN <<>>
       ELSE MatchFrom(original_lines, 1, normalized_snippet_lines)

(***************************************************************************)
(* find_target_in_content: the locator                                     *)
(***************************************************************************)
\* [x for x in occ if x.start >= pos]
RECURSIVE StartingFrom(_, _)
StartingFrom(occ, pos) ==
    IF occ = <<>> THEN <<>>
    ELSE IF Head(occ).start >= pos THEN <<Head(occ)>> \o StartingFrom(Tail(occ), pos)
    ELSE StartingFrom(Tail(occ), pos)

\* cursor filter for anchors
AnchorCursorFilter(anchor_occurrences, last_match_end) ==
    IF Len(anchor_occurrences) > 1 /\ last_match_end > 0
    THEN LET forward_anchors == StartingFrom(anchor_occurrences, last_match_end)
         IN IF forward_anchors # <<>> THEN forward_anchors ELSE anchor_occurrences
    ELSE anchor_occurrences

\* variant: a later anchor occurrence before the snippet does not shadow a
IsValidScope_NoShadow(a, anchor_occurrences, all_snippet_occurrences) ==
    StartingFrom(all_snippet_occurrences, a.end) # <<>>

\* deep scope resolution: is anchor occurrence a a valid scope
IsValidScope(a, anchor_occurrences, all_snippet_occurrences) ==
    LET snippets_after == StartingFrom(all_snippet_occurrences, a.end)
    IN /\ snippets_after # <<>>
       /\ ~ \E k \in 1..Len(anchor_occurrences) :
              /\ anchor_occurrences[k].start > a.end
              /\ anchor_occurrences[k].start < snippets_after[1].start

RECURSIVE SelectValid(_, _, _)
SelectValid(rest, anchor_occurrences, all_snippet_occurrences) ==
    IF rest = <<>> THEN <<>>
    ELSE (IF IsValidScope(Head(rest), anchor_occurrences, all_snippet_occurrences)
          THEN <<Head(rest)>> ELSE <<>>)
         \o SelectValid(Tail(rest), anchor_occurrences, all_snippet_occurrences)

DeepScope(content, snippet, anchor_occurrences) ==
    IF Len(anchor_occurrences) > 1
    THEN LET valid_scopes == SelectValid(anchor_occurrences, anchor_occurrences,
                                         smart_find(content, snippet))
         IN IF Len(valid_scopes) = 1 THEN valid_scopes ELSE anchor_occurrences
    ELSE anchor_occurrences

\* the anchor occurrences left when the anchor phase ends (non-empty anchor)
ResolveAnchor(content, anchor, snippet, last_match_end) ==
    DeepScope(content, snippet,
              AnchorCursorFilter(smart_find(content, anchor), last_match_end))

\* robust overlap detection, over the stripped non-blank lines of both
Overlaps(s_lines, a_lines) ==
    /\ s_lines # <<>>
    /\ a_lines # <<>>
    /\ \/ (Len(s_lines) >= Len(a_lines) /\ SubSeq(s_lines, 1, Len(a_lines)) = a_lines)
       \/ a_lines[Len(a_lines)] = s_lines[1]

is_overlap(anchor, snippet) == Overlaps(StrippedLines(snippet), StrippedLines(anchor))

\* variant: the snippet is searched from the head of the buffer
SearchOffset_Head(anchor_occurrence, anchor, snippet) == 0

\* where the snippet search starts (0 without an anchor)
SearchOffset(anchor_occurrence, anchor, snippet) ==
    IF is_overlap(anchor, snippet) THEN anchor_occurrence.start ELSE anchor_occurrence.end

\* snippet cursor filter
SnippetCursorFilter(occurrences, offset, last_match_end) ==
    IF Len(occurrences) > 1
    THEN LET forward_occurrences == StartingFrom(occurrences, last_match_end - offset)
         IN IF forward_occurrences # <<>> THEN <<forward_occurrences[1]>> ELSE occurrences
    ELSE occurrences

Located(s, e) == [code |-> "OK", start |-> s, end |-> e]
Error(c) == [code |-> c, start |-> -1, end |-> -1]

\* the final error handling and the returned range, for the occurrences the
\* cursor filter left
SnippetResult(occurrences, offset, has_anchor) ==
    IF occurrences = <<>> THEN Error("SNIPPET_NOT_FOUND")
    ELSE IF Len(occurrences) > 1 /\ ~has_anchor THEN Error("AMBIGUOUS_MATCH")
    ELSE Located(occurrences[1].start + offset, occurrences[1].end + offset)

\* the snippet phase over content[offset:]
SnippetPhase(content, offset, has_anchor, snippet, last_match_end) ==
    SnippetResult(SnippetCursorFilter(smart_find(Slice(content, offset, Len(content)), snippet),
                                      offset, last_match_end),
                  offset, has_anchor)

\* the end of the anchor phase, for the anchor occurrences left
AnchorResult(content, anchor, snippet, last_match_end, anchor_occurrences) ==
    IF anchor_occurrences = <<>> THEN Error("ANCHOR_NOT_FOUND")
    ELSE IF Len(anchor_occurrences) > 1 THEN Error("AMBIGUOUS_ANCHOR")
    ELSE SnippetPhase(content, SearchOffset(anchor_occurrences[1], anchor, snippet),
                      TRUE, snippet, last_match_end)

find_target_in_content(content, anchor, snippet, last_match_end) ==
    IF Truthy(anchor)
    THEN AnchorResult(content, anchor, snippet, last_match_end,
                      ResolveAnchor(content, anchor, snippet, last_match_end))
    ELSE SnippetPhase(content, 0, FALSE, snippet, last_match_end)

(***************************************************************************)
(* apply_patch: one modification against the working buffer                *)
(***************************************************************************)
internal_newline == "\n"

\* mod.get(key, 0) for the two integer keys; an absent key is <<>>, n is <<n>>
NoCount == <<>>
CountOf(x) == IF Len(x) = 0 THEN 0 ELSE x[1]

\* "\n".join(l.strip() for l in (text or "").strip().splitlines())
normalize_block(text) == Join(LF, StripEach(SplitLines(Strip(OrEmpty(text)))))

\* The two heuristics that turn a range locator into a point locator: the
\* value of the local end_snippet after the first ...
EndSnippetUnlessContent(mod) ==
    IF Truthy(mod.snippet) /\ Truthy(mod.end_snippet) /\ Truthy(OrEmpty(mod.content))
       /\ normalize_block(mod.end_snippet) = normalize_block(OrEmpty(mod.content))
    THEN None ELSE mod.end_snippet

\* ... and after the second
EndSnippetUnlessSuffix(snippet_val, end_snippet) ==
    IF Truthy(snippet_val) /\ Truthy(end_snippet)
       /\ EndsWith(Strip(snippet_val), Strip(end_snippet))
    THEN None ELSE end_snippet

EffectiveEndSnippet(mod) == EndSnippetUnlessSuffix(mod.snippet, EndSnippetUnlessContent(mod))

\* variant: the range stops where the end_snippet match begins
RangeEnd_Open(start_pos_info, end_occurrences) ==
    IF end_occurrences = <<>> THEN Error("END_SNIPPET_NOT_FOUND")
    ELSE Located(start_pos_info.start, start_pos_info.end + end_occurrences[1].start)

\* the end of the range: the first end_snippet at or after the snippet's end
RangeEnd(start_pos_info, end_occurrences) ==
    IF end_occurrences = <<>> THEN Error("END_SNIPPET_NOT_FOUND")
    ELSE Located(start_pos_info.start, start_pos_info.end + end_occurrences[1].end)

RangeFrom(working_content, end_snippet, start_pos_info) ==
    IF start_pos_info.code # "OK" THEN start_pos_info
    ELSE RangeEnd(start_pos_info,
                  smart_find(Slice(working_content, start_pos_info.end, Len(working_content)),
                             end_snippet))

\* the range locator: snippet, then end_snippet
RangeLocator(working_content, anchor, snippet_val, end_snippet, last_mod_end_pos) ==
    RangeFrom(working_content, end_snippet,
              find_target_in_content(working_content, anchor, snippet_val, last_mod_end_pos))

\* validation and location, with end_snippet as the heuristics left it
LocateWith(working_content, mod, end_snippet, last_mod_end_pos) ==
    IF mod.action = "" THEN Error("INVALID_MODIFICATION")
    ELSE IF end_snippet # None
    THEN IF mod.snippet = None THEN Error("INVALID_MODIFICATION")
         ELSE IF mod.action \notin {"REPLACE", "DELETE"} THEN Error("INVALID_MODIFICATION")
         ELSE RangeLocator(working_content, mod.anchor, mod.snippet, end_snippet,
                           last_mod_end_pos)
    ELSE IF mod.snippet # None
    THEN find_target_in_content(working_content, mod.anchor, mod.snippet, last_mod_end_pos)
    ELSE Error("INVALID_MODIFICATION")

\* validation and location of a modification that is not CREATE_FILE (a
\* modification without an action has action "")
Locate(working_content, mod, last_mod_end_pos) ==
    LocateWith(working_content, mod, EffectiveEndSnippet(mod), last_mod_end_pos)

\* variant: any action is skipped when its content is in the buffer
is_idempotency_skip_AnyAction(working_content, mod, code) ==
    /\ code \in {"SNIPPET_NOT_FOUND", "ANCHOR_NOT_FOUND", "END_SNIPPET_NOT_FOUND"}
    /\ \/ mod.action = "DELETE"
       \/ find_target_in_content(working_content, mod.anchor, OrEmpty(mod.content), 0).code = "OK"

\* a locator error is taken as "already applied"
is_idempotency_skip(working_content, mod, code) ==
    /\ code \in {"SNIPPET_NOT_FOUND", "ANCHOR_NOT_FOUND", "END_SNIPPET_NOT_FOUND"}
    /\ \/ mod.action = "DELETE"
       \/ /\ mod.action = "REPLACE"
          /\ find_target_in_content(working_content, mod.anchor, OrEmpty(mod.content), 0).code = "OK"

\* range expansion over blank lines: direction -1 walks back from start_pos,
\* direction 1 walks forward from end_pos, at most count lines
RECURSIVE Expand(_, _, _, _)
Expand(working_content, pos, direction, count) ==
    IF count <= 0 THEN pos
    ELSE LET next_newline == IF direction = -1
                             THEN RFind(working_content, internal_newline, pos - 1)
                             ELSE Find(working_content, internal_newline, pos)
         IN IF next_newline = -1
            THEN IF IsBlank(IF direction = -1 THEN Slice(working_content, 0, pos)
                            ELSE Slice(working_content, pos, Len(working_content)))
                 THEN (IF direction = -1 THEN 0 ELSE Len(working_content))
                 ELSE pos
            ELSE LET line_content == IF direction = -1
                                     THEN Slice(working_content, next_newline + 1, pos)
                                     ELSE Slice(working_content, pos, next_newline)
                 IN IF IsBlank(line_content)
                    THEN Expand(working_content, next_newline + 1, direction, count - 1)
                    ELSE pos

\* the idempotency gates of a located modification
IdempotencyGate(working_content, mod, start_pos, end_pos) ==
    LET content_to_add == OrEmpty(mod.content)
    IN \/ /\ mod.action = "REPLACE"
          /\ normalize_block(Slice(working_content, start_pos, end_pos))
                = normalize_block(content_to_add)
       \/ /\ mod.action = "INSERT_AFTER"
          /\ StartsWith(normalize_block(Slice(working_content, end_pos, Len(working_content))),
                        normalize_block(content_to_add))
       \/ /\ mod.action = "INSERT_BEFORE"
          /\ EndsWith(normalize_block(Slice(working_content, 0, start_pos)),
                      normalize_block(content_to_add))

\* the run of spaces and tabs at the head of s
RECURSIVE LeadingIndent(_)
LeadingIndent(s) ==
    IF s # <<>> /\ s[1] \in {" ", "\t"} THEN <<s[1]>> \o LeadingIndent(Tail(s)) ELSE <<>>

\* the text put in place by REPLACE / INSERT_AFTER / INSERT_BEFORE
indented_content(working_content, mod, start_pos, end_pos) ==
    LET content_to_add == OrEmpty(mod.content)
    IN IF content_to_add = <<>> THEN <<>>
       ELSE LET line_start_pos == RFind(working_content, internal_newline, start_pos) + 1
                indentation == LeadingIndent(Slice(working_content, line_start_pos, start_pos))
                lines == SplitLF(content_to_add)
                indented == Join(LF, [i \in 1..Len(lines) |-> indentation \o lines[i]])
                original_had_trailing_newline ==
                    end_pos > start_pos /\ working_content[end_pos] = internal_newline
            IN IF /\ \/ mod.action \in {"INSERT_AFTER", "INSERT_BEFORE"}
                     \/ (mod.action = "REPLACE" /\ original_had_trailing_newline)
                  /\ ~EndsWith(content_to_add, LF)
               THEN indented \o LF
               ELSE indented

\* the buffer after a located modification that passed the gates
Mutate(working_content, mod, start_pos, end_pos) ==
    LET before == Slice(working_content, 0, start_pos)
        after  == Slice(working_content, end_pos, Len(working_content))
        new    == indented_content(working_content, mod, start_pos, end_pos)
    IN CASE mod.action = "DELETE" -> before \o after
         [] mod.action = "REPLACE" -> before \o new \o after
         [] mod.action = "INSERT_AFTER" ->
                Slice(working_content, 0, end_pos) \o new \o after
         [] mod.action = "INSERT_BEFORE" ->
                before \o new \o Slice(working_content, start_pos, Len(working_content))
         [] OTHER -> working_content

\* The outcome of one pass of the modification loop for a modification that
\* is not CREATE_FILE.  kind is
\*   "fatal"    validation error, apply_patch returns FAILED
\*   "skipped"  locator error taken as already applied
\*   "failed"   locator error (recorded in force mode, returned otherwise)
\*   "noop"     located, an idempotency gate skipped it
\*   "applied"  located and applied
\* loc_start, loc_end is the range the locator returned, start_pos, end_pos
\* the range after expansion.
Outcome(kind, code, buffer, cursor, loc_start, loc_end, start_pos, end_pos) ==
    [kind |-> kind, code |-> code, buffer |-> buffer, cursor |-> cursor,
     loc_start |-> loc_start, loc_end |-> loc_end, start_pos |-> start_pos,
     end_pos |-> end_pos]

\* variant: the cursor moves to the end of the located range
ApplyAt_CursorEnd(working_content, mod, target_pos, start_pos, end_pos) ==
    IF IdempotencyGate(working_content, mod, start_pos, end_pos)
    THEN Outcome("noop", "OK", working_content, target_pos.end,
                 target_pos.start, target_pos.end, start_pos, end_pos)
    ELSE Outcome("applied", "OK", Mutate(working_content, mod, start_pos, end_pos),
                 target_pos.end, target_pos.start, target_pos.end, start_pos, end_pos)

\* the code after the expansion: idempotency gates, then the mutation
ApplyAt(working_content, mod, target_pos, start_pos, end_pos) ==
    IF IdempotencyGate(working_content, mod, start_pos, end_pos)
    THEN Outcome("noop", "OK", working_content, target_pos.start,
                 target_pos.start, target_pos.end, start_pos, end_pos)
    ELSE Outcome("applied", "OK", Mutate(working_content, mod, start_pos, end_pos),
                 target_pos.start, target_pos.start, target_pos.end, start_pos, end_pos)

\* the code after the locator: error handling, cursor, expansion
ApplyLocated(working_content, mod, last_mod_end_pos, target_pos) ==
    IF target_pos.code = "INVALID_MODIFICATION"
    THEN Outcome("fatal", target_pos.code, working_content, last_mod_end_pos, -1, -1, -1, -1)
    ELSE IF target_pos.code # "OK"
    THEN Outcome(IF is_idempotency_skip(working_content, mod, target_pos.code)
                 THEN "skipped" ELSE "failed",
                 target_pos.code, working_content, last_mod_end_pos, -1, -1, -1, -1)
    ELSE ApplyAt(working_content, mod, target_pos,
                 Expand(working_content, target_pos.start, -1,
                        CountOf(mod.include_leading_blank_lines)),
                 Expand(working_content, target_pos.end, 1,
                        CountOf(mod.include_trailing_blank_lines)))

ApplyModification(working_content, mod, last_mod_end_pos) ==
    ApplyLocated(working_content, mod, last_mod_end_pos,
                 Locate(working_content, mod, last_mod_end_pos))

\* variant: a file with other content is overwritten whatever it holds
CreateFile_Overwrite(working_content, mod, existing) ==
    LET base == [kind |-> "applied", code |-> "OK",
                 buffer |-> ToInternal(OrEmpty(mod.content)),
                 cursor |-> 0, loc_start |-> -1, loc_end |-> -1,
                 start_pos |-> -1, end_pos |-> -1]
    IN IF existing # None
          /\ normalize_block(ToInternal(existing)) = normalize_block(OrEmpty(mod.content))
       THEN [base EXCEPT !.kind = "noop", !.buffer = working_content]
       ELSE base

\* SAFE CREATE FILE: existing is the file's content read with universal
\* newlines, or None when the path does not exist.  kind is "fatal"
\* (FILE_EXISTS), "noop" (same content, nothing to do) or "applied".
CreateFile(working_content, mod, existing) ==
    LET content_to_add == OrEmpty(mod.content)
        existing_content == ToInternal(OrEmpty(existing))
        base == [kind |-> "applied", code |-> "OK", buffer |-> ToInternal(content_to_add),
                 cursor |-> 0, loc_start |-> -1, loc_end |-> -1,
                 start_pos |-> -1, end_pos |-> -1]
    IN IF existing = None THEN base
       ELSE IF normalize_block(existing_content) = normalize_block(content_to_add)
       THEN [base EXCEPT !.kind = "noop", !.buffer = working_content]
       ELSE IF IsBlank(existing_content) THEN base
       ELSE [base EXCEPT !.kind = "fatal", !.code = "FILE_EXISTS", !.buffer = working_content]

(***************************************************************************)
(* The file driver: paths, reading, line endings, denormalisation          *)
(***************************************************************************)
\* os.linesep of the host (POSIX)
linesep == LF

\* detect_line_endings reads this many bytes
ChunkSize == 1024

\* s.split('/')
RECURSIVE SplitPath(_)
SplitPath(s) ==
    LET sl == {i \in 1..Len(s) : s[i] = "/"}
    IN IF sl = {} THEN <<s>>
       ELSE LET i == CHOOSE k \in sl : \A j \in sl : k <= j
            IN <<SubSeq(s, 1, i - 1)>> \o SplitPath(SubSeq(s, i + 1, Len(s)))

project_dir == <<"/", "p">>

\* the symbolic links of the file system: components of the link -> of its target
Symlinks == [x \in {<< <<"p">>, <<"l">> >>} |-> << <<"o">> >>]

\* os.path.join(a, b)
PathJoin(a, b) ==
    IF b # <<>> /\ b[1] = "/" THEN b
    ELSE IF a = <<>> \/ a[Len(a)] = "/" THEN a \o b
    ELSE a \o <<"/">> \o b

\* os.path.realpath: "" and "." dropped, ".." climbs (not above the root),
\* symbolic links followed; comps are the components still to walk, cur the
\* resolved components so far
RECURSIVE Resolve(_, _)
Resolve(comps, cur) ==
    IF comps = <<>> THEN cur
    ELSE LET c == Head(comps)
         IN IF c = <<>> \/ c = <<".">> THEN Resolve(Tail(comps), cur)
            ELSE IF c = <<".", ".">>
            THEN Resolve(Tail(comps), IF cur = <<>> THEN cur ELSE SubSeq(cur, 1, Len(cur) - 1))
            ELSE IF Append(cur, c) \in DOMAIN Symlinks
            THEN Resolve(Tail(comps), Symlinks[Append(cur, c)])
            ELSE Resolve(Tail(comps), Append(cur, c))

realpath(path) ==
    LET comps == Resolve(SplitPath(path), <<>>)
    IN <<"/">> \o Join(<<"/">>, comps)

\* variant: the project path is compared without its trailing separator
IsInsideProject_Prefix(relative_path) ==
    StartsWith(realpath(PathJoin(project_dir, relative_path)), realpath(project_dir))

\* the path-safety test of apply_patch
IsInsideProject(relative_path) ==
    StartsWith(realpath(PathJoin(project_dir, relative_path)),
               PathJoin(realpath(project_dir), <<>>))

\* variant: the host's line ending, whatever the file holds
detect_line_endings_Host(bytes) == linesep

\* detect_line_endings on the bytes of an existing file
detect_line_endings(bytes) ==
    LET chunk == SubSeq(bytes, 1, Min(Len(bytes), ChunkSize))
        Has(c) == \E i \in 1..Len(chunk) : chunk[i] = c
    IN IF \E i \in 1..(Len(chunk) - 1) : chunk[i] = "\r" /\ chunk[i + 1] = "\n" THEN CRLF
       ELSE IF Has("\n") THEN LF
       ELSE IF Has("\r") THEN CR
       ELSE linesep

\* the line-ending string of a FileChange
newline_char(newline_mode, bytes) ==
    CASE newline_mode = <<"LF">> -> LF
      [] newline_mode = <<"CRLF">> -> CRLF
      [] newline_mode = <<"CR">> -> CR
      [] OTHER -> IF bytes # None THEN detect_line_endings(bytes) ELSE linesep

\* newline_char.join([line.rstrip(' \t') for line in working_content.split('\n')])
final_content(working_content, nl) ==
    LET lines == SplitLF(working_content)
    IN Join(nl, [i \in 1..Len(lines) |-> RStripSpaceTab(lines[i])])

\* what open(path, 'w', newline='' if newline_mode else None).write(text)
\* puts on disk: with newline=None every "\n" becomes os.linesep
RECURSIVE TranslateLF(_)
TranslateLF(text) ==
    IF text = <<>> THEN <<>>
    ELSE (IF text[1] = "\n" THEN linesep ELSE <<text[1]>>) \o TranslateLF(Tail(text))

WrittenBytes(text, newline_mode) ==
    IF newline_mode # None THEN text ELSE TranslateLF(text)

(***************************************************************************)
(* The state of one run of apply_patch and of the file system around it    *)
(***************************************************************************)
VARIABLES
    disk,          \* real path -> bytes of the file, None when there is none
    unwritable,    \* real paths the OS refuses to open for writing
    afailed,       \* bytes of ./afailed.ap, None when there is none
    data,          \* the parsed patch: [patch_id, changes]
    force, dry_run, json_report,   \* options of the call
    pc,            \* "start", "change", "mod", "report", "commit", "done"
    change_idx,    \* index of the FileChange being planned
    mod_idx,       \* index of the next modification of that FileChange
    cur,           \* locals of the FileChange loop body
    write_plan, failed_changes_output,
    write_idx,     \* index of the next write_plan entry to write
    result,        \* the Report returned: [status, code]
    run,           \* 1 for the first call, 2 for a second call with the same patch
    before,        \* the disk when the current call began
    last,          \* what the latest pass of the modification loop did
    starts         \* start offsets the locator returned in the current FileChange

vars == <<disk, unwritable, afailed, data, force, dry_run, json_report, pc, change_idx,
          mod_idx, cur, write_plan, failed_changes_output, write_idx, result, run,
          before, last, starts>>

NoLocals == [relative_path |-> <<>>, file_path |-> <<>>, newline_mode |-> None,
             newline_char |-> linesep, original_content |-> <<>>, file_existed |-> FALSE,
             working_content |-> <<>>, last_mod_end_pos |-> 0, broke |-> FALSE]

NoStep == [kind |-> "none", code |-> "OK", buffer |-> <<>>, cursor |-> 0,
           loc_start |-> -1, loc_end |-> -1, start_pos |-> -1, end_pos |-> -1,
           before |-> <<>>, cursor_before |-> 0, change_idx |-> 0, mod_idx |-> 0]

NoResult == [status |-> "RUNNING", code |-> "OK"]
Failed(code) == [status |-> "FAILED", code |-> code]
Success == [status |-> "SUCCESS", code |-> "OK"]

Changes == data.changes
Change == Changes[change_idx]
Mod == Change.modifications[mod_idx]

\* return report_error(err_details)
Return(r) ==
    /\ pc' = "done"
    /\ result' = r

\* the call begins; force mode refuses to run over an existing afailed.ap
\* (without json_report the process exits with code 1)
Invoke ==
    /\ pc = "start"
    /\ IF force /\ afailed # None
       THEN /\ Return(IF json_report THEN Failed("AFAILED_EXISTS")
                      ELSE [status |-> "EXIT", code |-> "AFAILED_EXISTS"])
            /\ UNCHANGED change_idx
       ELSE /\ pc' = IF Changes = <<>> THEN "report" ELSE "change"
            /\ change_idx' = 1
            /\ UNCHANGED result
    /\ UNCHANGED <<disk, unwritable, afailed, data, force, dry_run, json_report, mod_idx,
                   cur, write_plan, failed_changes_output, write_idx, run, before,
                   last, starts>>

\* the locals of the FileChange loop body once the file is read (bytes is
\* None when there is no file) and normalised
Opened(relative_path, file_path, newline_mode, bytes) ==
    [relative_path |-> relative_path,
     file_path |-> file_path,
     newline_mode |-> newline_mode,
     newline_char |-> newline_char(newline_mode, bytes),
     original_content |-> ToInternal(OrEmpty(bytes)),
     file_existed |-> bytes # None,
     working_content |-> ToInternal(ToInternal(OrEmpty(bytes))),
     last_mod_end_pos |-> 0,
     broke |-> FALSE]

\* head of the FileChange loop: path checks, line ending, reading the file
BeginChange ==
    /\ pc = "change"
    /\ LET relative_path == Change.file_path
           file_path == realpath(PathJoin(project_dir, relative_path))
           bytes == disk[file_path]
       IN IF relative_path = None
          THEN Return(Failed("INVALID_PATCH_FILE")) /\ UNCHANGED <<cur, mod_idx, starts>>
          ELSE IF ~IsInsideProject(relative_path)
          THEN Return(Failed("INVALID_FILE_PATH")) /\ UNCHANGED <<cur, mod_idx, starts>>
          ELSE IF bytes = None
                  /\ ~ \E k \in 1..Len(Change.modifications) :
                         Change.modifications[k].action = "CREATE_FILE"
          THEN Return(Failed("FILE_NOT_FOUND")) /\ UNCHANGED <<cur, mod_idx, starts>>
          ELSE /\ cur' = Opened(relative_path, file_path, Change.newline, bytes)
               /\ mod_idx' = 1
               /\ starts' = <<>>
               /\ pc' = "mod"
               /\ UNCHANGED result
    /\ UNCHANGED <<disk, unwritable, afailed, data, force, dry_run, json_report, change_idx,
                   write_plan, failed_changes_output, write_idx, run, before, last>>

\* failed_changes_output after a failed modification is recorded in force mode
RecordFailure(failed, change, mod) ==
    IF \E k \in 1..Len(failed) : failed[k].file_path = change.file_path
    THEN LET k == CHOOSE j \in 1..Len(failed) :
                      /\ failed[j].file_path = change.file_path
                      /\ \A h \in 1..(j - 1) : failed[h].file_path # change.file_path
         IN [failed EXCEPT ![k].modifications = Append(@, mod)]
    ELSE Append(failed, [file_path |-> change.file_path,
                         newline |-> change.newline,
                         modifications |-> <<mod>>])

\* what one pass of the modification loop leaves behind, given its outcome
Step(out, created) ==
    /\ last' = [kind |-> out.kind, code |-> out.code, buffer |-> out.buffer,
                cursor |-> out.cursor, loc_start |-> out.loc_start,
                loc_end |-> out.loc_end, start_pos |-> out.start_pos,
                end_pos |-> out.end_pos, before |-> cur.working_content,
                cursor_before |-> cur.last_mod_end_pos,
                change_idx |-> change_idx, mod_idx |-> mod_idx]
    /\ starts' = IF out.kind \in {"noop", "applied"} /\ ~created
                 THEN Append(starts, out.loc_start) ELSE starts
    /\ IF out.kind = "fatal" \/ (out.kind = "failed" /\ ~force)
       THEN /\ Return(Failed(out.code))
            /\ UNCHANGED <<cur, mod_idx, failed_changes_output>>
       ELSE /\ cur' = [cur EXCEPT !.working_content = out.buffer,
                                  !.last_mod_end_pos = IF created THEN @ ELSE out.cursor,
                                  !.broke = created]
            /\ mod_idx' = mod_idx + 1
            /\ failed_changes_output' =
                   IF out.kind = "failed"
                   THEN RecordFailure(failed_changes_output, Change, Mod)
                   ELSE failed_changes_output
            /\ UNCHANGED <<pc, result>>

\* one pass of the modification loop
Modify ==
    /\ pc = "mod"
    /\ ~cur.broke
    /\ mod_idx <= Len(Change.modifications)
    /\ Step(IF Mod.action = "CREATE_FILE"
            THEN CreateFile(cur.working_content, Mod, disk[cur.file_path])
            ELSE ApplyModification(cur.working_content, Mod, cur.last_mod_end_pos),
            Mod.action = "CREATE_FILE")
    /\ UNCHANGED <<disk, unwritable, afailed, data, force, dry_run, json_report, change_idx,
                   write_plan, write_idx, run, before>>

\* variant: the file is written as soon as its FileChange is planned
FinishChange_Write ==
    /\ pc = "mod"
    /\ cur.broke \/ mod_idx > Len(Change.modifications)
    /\ LET final == final_content(cur.working_content, cur.newline_char)
       IN /\ write_plan' = Append(write_plan, [file_path |-> cur.file_path,
                                               final_content |-> final,
                                               relative_path |-> cur.relative_path])
          /\ disk' = [disk EXCEPT ![cur.file_path] = final]
    /\ change_idx' = change_idx + 1
    /\ pc' = IF change_idx = Len(Changes) THEN "report" ELSE "change"
    /\ UNCHANGED <<unwritable, afailed, data, force, dry_run, json_report, mod_idx,
                   cur, failed_changes_output, write_idx, result, run, before, last, starts>>

\* end of the FileChange loop body: denormalise and plan the write
FinishChange ==
    /\ pc = "mod"
    /\ cur.broke \/ mod_idx > Len(Change.modifications)
    /\ LET final == final_content(cur.working_content, cur.newline_char)
       IN write_plan' = IF final # cur.original_content \/ ~cur.file_existed
                        THEN Append(write_plan, [file_path |-> cur.file_path,
                                                 final_content |-> final,
                                                 relative_path |-> cur.relative_path])
                        ELSE write_plan
    /\ change_idx' = change_idx + 1
    /\ pc' = IF change_idx = Len(Changes) THEN "report" ELSE "change"
    /\ UNCHANGED <<disk, unwritable, afailed, data, force, dry_run, json_report, mod_idx,
                   cur, failed_changes_output, write_idx, result, run, before, last, starts>>

(***************************************************************************)
(* The afailed.ap emitter of force mode                                    *)
(***************************************************************************)
SummaryLine ==
    <<"#", " ", "S", "u", "m", "m", "a", "r", "y", ":", " ", "F", "a", "i", "l", "e",
    "d", " ", "c", "h", "a", "n", "g", "e", "s", " ", "f", "r", "o", "m", " ", "a",
    " ", "f", "o", "r", "c", "e", "d", " ", "p", "a", "t", "c", "h", " ", "a", "p",
    "p", "l", "i", "c", "a", "t", "i", "o", "n", ".", "\n", "\n">>

HeaderTail == <<" ", "A", "P", " ", "3", ".", "0", "\n", "\n">>

ActionText(action) ==
    CASE action = "REPLACE" -> <<"R", "E", "P", "L", "A", "C", "E">>
      [] action = "INSERT_AFTER" ->
             <<"I", "N", "S", "E", "R", "T", "_", "A", "F", "T", "E", "R">>
      [] action = "INSERT_BEFORE" ->
             <<"I", "N", "S", "E", "R", "T", "_", "B", "E", "F", "O", "R", "E">>
      [] action = "DELETE" -> <<"D", "E", "L", "E", "T", "E">>
      [] action = "CREATE_FILE" ->
             <<"C", "R", "E", "A", "T", "E", "_", "F", "I", "L", "E">>

NewlineText(newline_mode) ==
    CASE newline_mode = <<"LF">> -> <<"L", "F">>
      [] newline_mode = <<"CRLF">> -> <<"C", "R", "L", "F">>
      [] newline_mode = <<"CR">> -> <<"C", "R">>

KeyAnchor == <<"a", "n", "c", "h", "o", "r">>
KeySnippet == <<"s", "n", "i", "p", "p", "e", "t">>
KeyEndSnippet == <<"e", "n", "d", "_", "s", "n", "i", "p", "p", "e", "t">>
KeyContent == <<"c", "o", "n", "t", "e", "n", "t">>
KeyLeading ==
    <<"i", "n", "c", "l", "u", "d", "e", "_", "l", "e", "a", "d", "i", "n", "g", "_",
    "b", "l", "a", "n", "k", "_", "l", "i", "n", "e", "s">>
KeyTrailing ==
    <<"i", "n", "c", "l", "u", "d", "e", "_", "t", "r", "a", "i", "l", "i", "n", "g",
    "_", "b", "l", "a", "n", "k", "_", "l", "i", "n", "e", "s">>
KeyFile == <<"F", "I", "L", "E">>

\* str(n)
Digit(d) == <<CASE d = 0 -> "0" [] d = 1 -> "1" [] d = 2 -> "2" [] d = 3 -> "3"
                [] d = 4 -> "4" [] d = 5 -> "5" [] d = 6 -> "6" [] d = 7 -> "7"
                [] d = 8 -> "8" [] d = 9 -> "9">>

RECURSIVE NatText(_)
NatText(n) == IF n < 10 THEN Digit(n) ELSE NatText(n \div 10) \o Digit(n % 10)

IntText(n) == IF n < 0 THEN <<"-">> \o NatText(0 - n) ELSE NatText(n)

\* variant: the value on the line of its key
ValueBlock_Inline(patch_id_str, key, value) ==
    IF value = None THEN <<>>
    ELSE patch_id_str \o <<" ">> \o key \o <<" ">> \o value \o LF

\* f"{patch_id_str} {key}\n{mod_item[key]}\n" when the key is present
ValueBlock(patch_id_str, key, value) ==
    IF value = None THEN <<>>
    ELSE patch_id_str \o <<" ">> \o key \o LF \o value \o LF

\* f"{patch_id_str} {key} {mod_item[key]}\n" when the key is present
IntBlock(patch_id_str, key, value) ==
    IF Len(value) = 0 THEN <<>>
    ELSE patch_id_str \o <<" ">> \o key \o <<" ">> \o IntText(value[1]) \o LF

ModText(patch_id_str, mod_item) ==
    patch_id_str \o <<" ">> \o ActionText(mod_item.action) \o LF
    \o ValueBlock(patch_id_str, KeyAnchor, mod_item.anchor)
    \o ValueBlock(patch_id_str, KeySnippet, mod_item.snippet)
    \o ValueBlock(patch_id_str, KeyEndSnippet, mod_item.end_snippet)
    \o ValueBlock(patch_id_str, KeyContent, mod_item.content)
    \o IntBlock(patch_id_str, KeyLeading, mod_item.include_leading_blank_lines)
    \o IntBlock(patch_id_str, KeyTrailing, mod_item.include_trailing_blank_lines)
    \o LF

ChangeText(patch_id_str, change_item) ==
    patch_id_str \o <<" ">> \o KeyFile
    \o (IF change_item.newline # None
        THEN <<" ">> \o NewlineText(change_item.newline) ELSE <<>>)
    \o LF \o change_item.file_path \o LF \o LF
    \o Concat([k \in 1..Len(change_item.modifications) |->
                  ModText(patch_id_str, change_item.modifications[k])])

\* the text written to afailed.ap
FailedPatchText(patch_id_str, failed) ==
    SummaryLine \o patch_id_str \o HeaderTail
    \o Concat([k \in 1..Len(failed) |-> ChangeText(patch_id_str, failed[k])])

(***************************************************************************)
(* After planning: the force-mode report and the commit phase              *)
(***************************************************************************)
\* the code between the FileChange loop and the write loop
Report ==
    /\ pc = "report"
    /\ IF write_plan = <<>> /\ failed_changes_output # <<>>
       THEN Return(Failed("MODIFICATION_FAILED")) /\ UNCHANGED <<afailed, write_idx>>
       ELSE /\ afailed' = IF force /\ failed_changes_output # <<>>
                          THEN FailedPatchText(data.patch_id, failed_changes_output)
                          ELSE afailed
            /\ IF force /\ failed_changes_output # <<>> /\ write_plan = <<>>
               THEN Return(Failed("ALL_CHANGES_FAILED")) /\ UNCHANGED write_idx
               ELSE IF dry_run \/ write_plan = <<>>
               THEN Return(Success) /\ UNCHANGED write_idx
               ELSE pc' = "commit" /\ write_idx' = 1 /\ UNCHANGED result
    /\ UNCHANGED <<disk, unwritable, data, force, dry_run, json_report, change_idx, mod_idx,
                   cur, write_plan, failed_changes_output, run, before, last, starts>>

\* one pass of the write loop; the newline argument of open() is taken from
\* newline_mode, the variable the FileChange loop left behind
WriteFile ==
    /\ pc = "commit"
    /\ LET entry == write_plan[write_idx]
       IN IF entry.file_path \in unwritable
          THEN Return(Failed("FILE_WRITE_ERROR")) /\ UNCHANGED <<disk, write_idx>>
          ELSE /\ disk' = [disk EXCEPT ![entry.file_path] =
                                WrittenBytes(entry.final_content, cur.newline_mode)]
               /\ write_idx' = write_idx + 1
               /\ IF write_idx = Len(write_plan)
                  THEN Return(Success)
                  ELSE UNCHANGED <<pc, result>>
    /\ UNCHANGED <<unwritable, afailed, data, force, dry_run, json_report, change_idx,
                   mod_idx, cur, write_plan, failed_changes_output, run, before, last,
                   starts>>

\* the same patch is applied a second time to what the first call left
Reapply ==
    /\ pc = "done"
    /\ run = 1
    /\ result.status = "SUCCESS"
    /\ run' = 2
    /\ pc' = "start"
    /\ before' = disk
    /\ result' = NoResult
    /\ change_idx' = 0
    /\ mod_idx' = 0
    /\ write_idx' = 0
    /\ cur' = NoLocals
    /\ write_plan' = <<>>
    /\ failed_changes_output' = <<>>
    /\ last' = NoStep
    /\ starts' = <<>>
    /\ UNCHANGED <<disk, unwritable, afailed, data, force, dry_run, json_report>>

(***************************************************************************)
(* Inputs                                                                  *)
(***************************************************************************)
MaxFileLines == 2
MaxMods == 2
MaxChanges == 2

\* all sequences over S of length lo..hi
SeqsOf(S, lo, hi) == UNION {[1..n -> S] : n \in lo..hi}

\* lines of the files on disk and of the patch values
LineA == <<"a">>
LineB == <<"b">>
LineC == <<"c">>
LineIndentA == <<" ", "a">>
LineBTab == <<"b", "\t">>
LineXA == <<"x", "a">>

Text(lines) == Join(LF, lines)

\* a file: lines, each ended by nl, the last one ended or not
FileBytes(lines, nl, ended) == Join(nl, lines) \o (IF ended THEN nl ELSE <<>>)

PathF == <<"f">>
PathG == <<"g">>
PathH == <<"h">>
RealF == realpath(PathJoin(project_dir, PathF))
RealG == realpath(PathJoin(project_dir, PathG))
RealH == realpath(PathJoin(project_dir, PathH))

PatchId == <<"a", "b", "c", "d", "1", "2", "3", "4">>

NewMod(action, anchor, snippet, end_snippet, content) ==
    [action |-> action, anchor |-> anchor, snippet |-> snippet,
     end_snippet |-> end_snippet, content |-> content,
     include_leading_blank_lines |-> NoCount, include_trailing_blank_lines |-> NoCount]

NewChange(file_path, newline, modifications) ==
    [file_path |-> file_path, newline |-> newline, modifications |-> modifications]

\* the state when apply_patch is called
Called(d, u, af, changes, f, dr, js) ==
    /\ disk = d
    /\ unwritable = u
    /\ afailed = af
    /\ data = [patch_id |-> PatchId, changes |-> changes]
    /\ force = f
    /\ dry_run = dr
    /\ json_report = js
    /\ pc = "start"
    /\ change_idx = 0
    /\ mod_idx = 0
    /\ cur = NoLocals
    /\ write_plan = <<>>
    /\ failed_changes_output = <<>>
    /\ write_idx = 0
    /\ result = NoResult
    /\ run = 1
    /\ before = d
    /\ last = NoStep
    /\ starts = <<>>

\* the files of the model's file system; /o and /p2 lie outside the project
RealOutside == <<"/", "o", "/", "f">>
RealSibling == <<"/", "p", "2", "/", "f">>
DiskPaths == {RealF, RealG, RealH, RealOutside, RealSibling, realpath(project_dir)}

DiskWith(f, g) ==
    [x \in DiskPaths |->
        IF x = RealF THEN f
        ELSE IF x = RealG THEN g
        ELSE IF x \in {RealOutside, RealSibling} THEN FileBytes(<<LineA>>, LF, TRUE)
        ELSE None]

TextAB == Text(<<LineA, LineB>>)
TextAA == Text(<<LineA, LineA>>)
FileAB == FileBytes(<<LineA, LineB>>, LF, TRUE)

\* relative paths of a FileChange: inside the project ...
GoodPaths == {PathF, PathG, PathH}
\* ... and not: the project directory itself, a parent, an absolute path, a
\* symbolic link that leaves the project, a sibling whose name begins with
\* the project's name
BadPaths == {<<".">>, <<>>, <<".", ".", "/", "o", "/", "f">>, RealOutside,
             <<"l", "/", "f">>, <<".", ".", "/", "p", "2", "/", "f">>}

ReplaceAC == NewMod("REPLACE", None, LineA, None, LineC)
ReplaceBC == NewMod("REPLACE", None, LineB, None, LineC)
ReplaceAAA == NewMod("REPLACE", None, LineA, None, TextAA)
ReplaceBCTab == NewMod("REPLACE", None, LineB, None, <<"c", "\t">>)
InsertAfterAC == NewMod("INSERT_AFTER", None, LineA, None, LineC)
InsertAfterCA == NewMod("INSERT_AFTER", None, LineC, None, LineA)
InsertBeforeBC == NewMod("INSERT_BEFORE", None, LineB, None, <<"c", " ">>)
DeleteA == NewMod("DELETE", None, LineA, None, None)
AnchoredReplace == NewMod("REPLACE", LineB, LineA, None, LineC)
RangeReplace == NewMod("REPLACE", None, LineA, LineB, LineC)
CreateC == NewMod("CREATE_FILE", None, None, None, LineC)

\* --- several FileChanges, good and bad paths, the options of the call ---
DriverMods == {<<ReplaceAC>>, <<InsertAfterCA>>, <<CreateC>>, <<InsertAfterCA, ReplaceBC>>}
DriverChanges ==
    {NewChange(p, None, m) : p \in GoodPaths, m \in DriverMods}
    \cup {NewChange(p, None, <<ReplaceAC>>) : p \in BadPaths}

InitDriver ==
    \E changes \in SeqsOf(DriverChanges, 1, MaxChanges),
       f \in BOOLEAN, dr \in BOOLEAN, u \in {{}, {RealG}} :
        Called(DiskWith(FileAB, FileAB), u, None, changes, f, dr, TRUE)

\* --- an afailed.ap left by an earlier run ---
InitAfailed ==
    \E f \in BOOLEAN, js \in BOOLEAN :
        Called(DiskWith(FileAB, FileAB), {}, FileAB,
               <<NewChange(PathF, None, <<ReplaceAC>>)>>, f, FALSE, js)

\* --- one FileChange on one LF file: matching, mutation, cursor ---
FileLines == {LineA, LineB, LineIndentA, LineBTab}
HeadMods == {ReplaceAC, ReplaceBC, ReplaceAAA, ReplaceBCTab, InsertAfterAC, InsertBeforeBC,
             DeleteA, AnchoredReplace, RangeReplace, CreateC}
TailMods == {ReplaceAC, DeleteA, InsertAfterAC, ReplaceBC}
ModSeqs == {<<h>> \o t : h \in HeadMods, t \in SeqsOf(TailMods, 0, MaxMods - 1)}

InitFile ==
    \E lines \in SeqsOf(FileLines, 1, MaxFileLines), ended \in BOOLEAN,
       mods \in ModSeqs, f \in BOOLEAN :
        Called(DiskWith(FileBytes(lines, LF, ended), None), {}, None,
               <<NewChange(PathF, None, mods)>>, f, FALSE, TRUE)

\* --- line endings: CRLF, CR, LF and mixed files, newline directives ---
NewlineModes == {None, <<"LF">>, <<"CRLF">>, <<"CR">>}
StyledLines == {LineA, LineB, LineBTab, <<>>}
MixedFile == LineA \o CRLF \o LineB \o LF \o LineA \o CR
StyledFiles ==
    {FileBytes(lines, nl, ended) :
        lines \in SeqsOf(StyledLines, 1, MaxFileLines), nl \in {LF, CRLF, CR},
        ended \in BOOLEAN}
    \cup {MixedFile}
StyleMods == {ReplaceBC, InsertAfterAC, DeleteA, CreateC}

InitNewline ==
    \E bytes \in StyledFiles, nl \in NewlineModes, m \in StyleMods :
        Called(DiskWith(bytes, None), {}, None, <<NewChange(PathF, nl, <<m>>)>>,
               FALSE, FALSE, TRUE)

Init == InitDriver \/ InitAfailed \/ InitFile \/ InitNewline

Next == Invoke \/ BeginChange \/ Modify \/ FinishChange \/ Report \/ WriteFile \/ Reapply

Spec == Init /\ [][Next]_vars

(***************************************************************************)
(* The modification loop alone: one FileChange on an LF file, from the      *)
(* point where the file has been read, over a wider range of buffers and    *)
(* locators                                                                *)
(***************************************************************************)
MaxBufferLines == 3

BufferLines == {LineA, LineB, <<>>}
Buffers ==
    {FileBytes(lines, LF, TRUE) : lines \in SeqsOf(BufferLines, 1, MaxBufferLines)}
    \cup {FileBytes(<<LineXA, LineA, LineB>>, LF, TRUE),
          FileBytes(<<LineIndentA, LineB, LineA>>, LF, FALSE)}

\* a REPLACE of a line by itself: located, then skipped by the idempotency
\* gate; it leaves the buffer alone and moves the cursor to the line
Touch(line) == NewMod("REPLACE", None, line, None, line)

WithBlankLines(mod, n) ==
    [mod EXCEPT !.include_leading_blank_lines = n, !.include_trailing_blank_lines = n]

LocatorMods ==
    {WithBlankLines(NewMod(action, anchor, snippet, end_snippet, content), n) :
        action \in {"REPLACE", "DELETE", "INSERT_AFTER"},
        anchor \in {None, LineA, LineB, TextAB},
        snippet \in {LineA, LineB},
        end_snippet \in {None, LineA, LineB},
        content \in {LineC, LineB},
        n \in {NoCount, <<1>>}}

\* the state at the head of the modification loop of the first FileChange
Reading(d, changes) ==
    /\ disk = d
    /\ unwritable = {}
    /\ afailed = None
    /\ data = [patch_id |-> PatchId, changes |-> changes]
    /\ force = FALSE
    /\ dry_run = FALSE
    /\ json_report = TRUE
    /\ pc = "mod"
    /\ change_idx = 1
    /\ mod_idx = 1
    /\ cur = Opened(changes[1].file_path,
                    realpath(PathJoin(project_dir, changes[1].file_path)),
                    changes[1].newline,
                    d[realpath(PathJoin(project_dir, changes[1].file_path))])
    /\ write_plan = <<>>
    /\ failed_changes_output = <<>>
    /\ write_idx = 0
    /\ result = NoResult
    /\ run = 1
    /\ before = d
    /\ last = NoStep
    /\ starts = <<>>

InitModify ==
    \E bytes \in Buffers, m \in LocatorMods,
       prior \in {<<>>, <<Touch(LineA)>>, <<Touch(LineB)>>} :
        Reading(DiskWith(bytes, None), <<NewChange(PathF, None, prior \o <<m>>)>>)

NextModify == Modify

SpecModify == InitModify /\ [][NextModify]_vars

(***************************************************************************)
(* Properties                                                              *)
(***************************************************************************)
\* the modification the latest pass of the modification loop worked on
Stepped == last.kind # "none"
LastMod == data.changes[last.change_idx].modifications[last.mod_idx]

\* the resolved paths of the files the patch names
TargetPaths == {realpath(PathJoin(project_dir, Changes[k].file_path)) : k \in 1..Len(Changes)}

\* C1: a call without force that returns FAILED, whatever the error code,
\* leaves the bytes of every file the patch names as they were before the call.
C1_Atomicity ==
    (pc = "done" /\ ~force /\ result.status = "FAILED")
        => \A p \in TargetPaths : disk[p] = before[p]

\* C2: the same patch applied a second time, after a first application that
\* returned SUCCESS and wrote its files, returns SUCCESS, leaves every file
\* byte-identical and puts no file in the write plan.
C2_Idempotency ==
    (pc = "done" /\ run = 2 /\ ~force /\ ~dry_run)
        => /\ result = Success
           /\ disk = before
           /\ write_plan = <<>>

\* C3: a modification without an anchor whose snippet matches at more than
\* one place in the working buffer fails with AMBIGUOUS_MATCH and leaves the
\* buffer alone, also when the cursor is 0.
C3_AmbiguousMatch ==
    (/\ Stepped
     /\ LastMod.action \notin {"CREATE_FILE", ""}
     /\ ~Truthy(LastMod.anchor)
     /\ Truthy(LastMod.snippet)
     /\ Len(smart_find(last.before, LastMod.snippet)) > 1)
        => /\ last.code = "AMBIGUOUS_MATCH"
           /\ last.kind = "failed"
           /\ last.buffer = last.before

\* C4: in force mode, when a modification failed with a locator error and a
\* file is in the write plan (every FileChange planned, no dry run, no write
\* refused), the call returns SUCCESS, every entry of the write plan is on disk with the
\* modifications that succeeded, and afailed.ap holds the failed
\* modifications under the patch's own patch_id.
C4_ForcePartial ==
    (/\ pc = "done"
     /\ change_idx = Len(Changes) + 1
     /\ force /\ ~dry_run /\ unwritable = {}
     /\ failed_changes_output # <<>>
     /\ write_plan # <<>>)
        => /\ result = Success
           /\ \A k \in 1..Len(write_plan) :
                  disk[write_plan[k].file_path] = write_plan[k].final_content
           /\ afailed = FailedPatchText(data.patch_id, failed_changes_output)

\* path is strictly inside directory root
StrictlyInside(path, root) ==
    /\ Len(path) > Len(root) + 1
    /\ SubSeq(path, 1, Len(root) + 1) = root \o <<"/">>

TargetPath(k) == realpath(PathJoin(project_dir, Changes[k].file_path))

\* C5: every file written has a resolved path strictly inside the resolved
\* project directory; a FileChange whose path resolves outside it, or to
\* it, makes the call return FAILED with INVALID_FILE_PATH, and nothing is
\* written even if earlier FileChanges were valid.
C5_PathConfinement ==
    /\ \A k \in 1..Len(write_plan) :
           StrictlyInside(write_plan[k].file_path, realpath(project_dir))
    /\ \A p \in DiskPaths :
           disk[p] # before[p] => StrictlyInside(p, realpath(project_dir))
    /\ (pc = "done" /\ \E k \in 1..Len(Changes) :
                           ~StrictlyInside(TargetPath(k), realpath(project_dir)))
           => result.status = "FAILED" /\ disk = before
    /\ (/\ pc = "done"
        /\ change_idx \in 1..Len(Changes)
        /\ ~StrictlyInside(TargetPath(change_idx), realpath(project_dir)))
           => result = Failed("INVALID_FILE_PATH")

\* a valid FileChange was planned, the next one left the project: FAILED
\* with INVALID_FILE_PATH and the disk as it was
C5_Witness ==
    /\ pc = "done"
    /\ change_idx = 2
    /\ write_plan # <<>>
    /\ ~StrictlyInside(TargetPath(2), realpath(project_dir))
    /\ result = Failed("INVALID_FILE_PATH")
    /\ disk = before

\* C6: within one FileChange the start offsets the locator resolved for the
\* located modifications, in patch order, are non-decreasing.
C6_CursorMonotone ==
    \A i, j \in 1..Len(starts) : i < j => starts[i] <= starts[j]

\* the line terminators a file holds
Terminators(bytes) ==
    {"CRLF" : i \in {j \in 1..(Len(bytes) - 1) : bytes[j] = "\r" /\ bytes[j + 1] = "\n"}}
    \cup {"LF" : i \in {j \in 1..Len(bytes) :
                           bytes[j] = "\n" /\ (j = 1 \/ bytes[j - 1] # "\r")}}
    \cup {"CR" : i \in {j \in 1..Len(bytes) :
                           bytes[j] = "\r" /\ (j = Len(bytes) \/ bytes[j + 1] # "\n")}}

\* the style a newline directive names, else the style found in the file
\* (CRLF, then LF, then CR; the host's LF when it has no terminator)
ExpectedStyle(newline_mode, bytes) ==
    IF newline_mode # None THEN newline_mode[1]
    ELSE IF "CRLF" \in Terminators(bytes) THEN "CRLF"
    ELSE IF "LF" \in Terminators(bytes) THEN "LF"
    ELSE IF "CR" \in Terminators(bytes) THEN "CR"
    ELSE "LF"

\* the write_plan entries the write loop has written
Written == IF pc \in {"commit", "done"} THEN 1..(write_idx - 1) ELSE {}

\* C7: for every file that existed before the call and is written, every
\* line terminator of the output is the style detected in the input, or the
\* style of the FileChange's newline directive when there is one; so no
\* written file holds both CRLF and bare LF.
C7_LineEndings ==
    \A k \in Written :
        before[write_plan[k].file_path] # None
            => \E c \in 1..Len(Changes) :
                   /\ Changes[c].file_path = write_plan[k].relative_path
                   /\ Terminators(disk[write_plan[k].file_path])
                         \subseteq {ExpectedStyle(Changes[c].newline,
                                                  before[write_plan[k].file_path])}

\* a CRLF file without a newline directive was changed and is still CRLF
C7_Witness ==
    /\ pc = "done"
    /\ result = Success
    /\ Written # {}
    /\ Changes[1].newline = None
    /\ "CRLF" \in Terminators(before[RealF])
    /\ disk[RealF] # before[RealF]
    /\ Terminators(disk[RealF]) = {"CRLF"}

\* no space or tab stands right before a line terminator or the end of bytes
NoTrailingBlank(bytes) ==
    \A i \in 1..Len(bytes) :
        bytes[i] \in {" ", "\t"} => i < Len(bytes) /\ bytes[i + 1] \notin {"\n", "\r"}

\* C8: in every file written no line ends with a space or a tab before its
\* line terminator or the end of the file, whether a modification touched
\* the line or not and whether the patch content supplied it or not.
C8_NoTrailingWhitespace ==
    \A k \in Written : NoTrailingBlank(disk[write_plan[k].file_path])

\* a file that had a line ending in a space or tab was written
C8_Witness ==
    /\ pc = "done"
    /\ Written # {}
    /\ before[RealF] # None
    /\ ~NoTrailingBlank(before[RealF])
    /\ disk[RealF] # before[RealF]

\* the occurrences of a sequence of occurrences, as a set
Occurrences(occ) == {occ[i] : i \in 1..Len(occ)}

\* the latest pass located its target (applied or skipped by a gate)
LastLocated == Stepped /\ last.kind \in {"noop", "applied"}

\* the latest pass had an anchor that resolved to a single occurrence
SingleAnchor ==
    /\ LastLocated
    /\ LastMod.action # "CREATE_FILE"
    /\ Truthy(LastMod.anchor)
    /\ Len(ResolveAnchor(last.before, LastMod.anchor, LastMod.snippet,
                         last.cursor_before)) = 1

\* where the search space of the snippet begins for an anchor occurrence
SpaceStart(a) == IF is_overlap(LastMod.anchor, LastMod.snippet) THEN a.start ELSE a.end

\* the range starts in the anchor's search space; with cursor 0 it is the
\* first snippet occurrence of that space; occurrences before the anchor are
\* not selected and keep their bytes
AnchoredAt(a, occ) ==
    /\ last.loc_start >= SpaceStart(a)
    /\ last.cursor_before = 0
           => /\ \E o \in occ : o.start = last.loc_start /\ o.end <= last.loc_end
              /\ \A o \in occ : o.start >= SpaceStart(a) => o.start >= last.loc_start
    /\ \A o \in occ :
           o.end <= a.start
               => /\ o.start # last.loc_start
                  /\ Slice(last.buffer, o.start, o.end) = Slice(last.before, o.start, o.end)

\* C9: when the anchor of a modification resolves to a single occurrence,
\* the range the locator returns starts at or after the anchor's end (its
\* start when snippet and anchor overlap), with cursor 0 it is the first
\* snippet occurrence of that search space, and a snippet occurrence lying
\* before the anchor is never selected and is left intact.
C9_AnchorScope ==
    SingleAnchor
        => AnchoredAt(ResolveAnchor(last.before, LastMod.anchor, LastMod.snippet,
                                    last.cursor_before)[1],
                      Occurrences(smart_find(last.before, LastMod.snippet)))

\* the snippet also occurs before the anchor; the occurrence after the
\* anchor was taken and the buffer changed
C9_Witness ==
    /\ SingleAnchor
    /\ last.kind = "applied"
    /\ last.cursor_before = 0
    /\ \E o \in Occurrences(smart_find(last.before, LastMod.snippet)) :
           o.end <= last.loc_start /\ o.start < last.loc_start
    /\ last.loc_start > 0

\* the latest pass applied a REPLACE or DELETE that has snippet and end_snippet
RangeApplied ==
    /\ Stepped
    /\ last.kind = "applied"
    /\ LastMod.action \in {"REPLACE", "DELETE"}
    /\ Truthy(LastMod.snippet)
    /\ Truthy(LastMod.end_snippet)

\* no blank lines are to be taken in around the range
NoExpansion ==
    /\ CountOf(LastMod.include_leading_blank_lines) = 0
    /\ CountOf(LastMod.include_trailing_blank_lines) = 0

\* e is the end of the first end_snippet match at or after position from
FirstEndFrom(ends, from, e) ==
    \E o \in ends :
        /\ o.start >= from
        /\ o.end = e
        /\ \A q \in ends : q.start >= from => q.start >= o.start

\* what takes the place of the range [s, e): nothing for DELETE, the content
\* for REPLACE; with lf, the content is ended by a line feed when the range
\* ended with one and the content does not
Replacement(s, e, lf) ==
    IF LastMod.action = "DELETE" THEN <<>>
    ELSE IF /\ lf
            /\ LastMod.content # <<>>
            /\ e > s /\ last.before[e] = "\n"
            /\ ~EndsWith(LastMod.content, LF)
    THEN LastMod.content \o LF
    ELSE LastMod.content

\* the buffer is the old one with [s, e) replaced
ActedOn(s, e, lf) ==
    last.buffer = Slice(last.before, 0, s) \o Replacement(s, e, lf)
                  \o Slice(last.before, e, Len(last.before))

\* the modification acted on the range from the start of the snippet match
\* to the end of the first end_snippet match at or after its end
ActedOnRange(snippet_match, ends, lf) ==
    /\ snippet_match.code = "OK"
    /\ \E e \in 0..Len(last.before) :
           /\ FirstEndFrom(ends, snippet_match.end, e)
           /\ ActedOn(snippet_match.start, e, lf)

MaxFindLines == 4

FindLines == {LineA, LineB, LineXA, <<" ">>, <<>>}
FindBuffers ==
    {FileBytes(lines, LF, ended) :
        lines \in SeqsOf(FindLines, 1, MaxFindLines), ended \in BOOLEAN}
FindSnippets ==
    {LineA, LineB, TextAB, Text(<<LineB, LineA>>), Text(<<LineA, <<>>, LineB>>),
     Text(<<<<" ", "a", " ">>, <<"\t", "b">>>>), Text(<<LineA, LineB, LineA>>),
     FileBytes(<<LineXA>>, LF, TRUE), <<" ">>, LF}

InitFind ==
    \E bytes \in FindBuffers, snippet \in FindSnippets :
        Reading(DiskWith(bytes, None),
                <<NewChange(PathF, None, <<NewMod("DELETE", None, snippet, None, None)>>)>>)

NextFind == Modify

SpecFind == InitFind /\ [][NextFind]_vars

\* the offset just past line n of lines (0 for n = 0)
RECURSIVE OffsetPast(_, _)
OffsetPast(lines, n) == IF n = 0 THEN 0 ELSE Len(lines[n]) + OffsetPast(lines, n - 1)

\* the non-blank lines from line i on, and the n-th smallest member of a set
NonBlankFrom(lines, i) == {j \in i..Len(lines) : ~IsBlank(lines[j])}
Nth(S, n) == CHOOSE j \in S : Cardinality({h \in S : h <= j}) = n

\* line i is non-blank, ends (stripped) with the first snippet line, and the
\* non-blank lines after it equal the remaining snippet lines
MatchesAtLine(lines, i, snip) ==
    /\ ~IsBlank(lines[i])
    /\ Cardinality(NonBlankFrom(lines, i)) >= Len(snip)
    /\ EndsWith(Strip(lines[i]), snip[1])
    /\ \A n \in 2..Len(snip) : Strip(lines[Nth(NonBlankFrom(lines, i), n)]) = snip[n]

SpecifiedRanges(lines, snip) ==
    IF snip = <<>> THEN {}
    ELSE {[start |-> OffsetPast(lines, i - 1),
           end |-> OffsetPast(lines, Nth(NonBlankFrom(lines, i), Len(snip)))] :
            i \in {h \in 1..Len(lines) : MatchesAtLine(lines, h, snip)}}

FindsAsSpecified(found, content, snippet) ==
    /\ {found[n] : n \in 1..Len(found)}
           = SpecifiedRanges(SplitLinesKeep(content), StrippedLines(snippet))
    /\ \A m, n \in 1..Len(found) : m < n => found[m].start < found[n].start

\* C11: smart_find returns one range for each non-blank content line that
\* ends with the first stripped snippet line and is followed, blank lines
\* skipped, by non-blank lines equal to the remaining stripped snippet lines;
\* the range runs from the start of that line to just past the last line
\* consumed; the ranges are in strictly increasing start order, and a snippet
\* without a non-blank line gives none.
C11_SmartFind ==
    Stepped => FindsAsSpecified(smart_find(last.before, LastMod.snippet),
                                last.before, LastMod.snippet)

\* a two-line snippet found twice, one of the ranges spanning a blank line
C11_Witness ==
    /\ Stepped
    /\ Len(StrippedLines(LastMod.snippet)) = 2
    /\ Len(smart_find(last.before, LastMod.snippet)) = 2
    /\ \E n \in 1..2 : smart_find(last.before, LastMod.snippet)[n].end
                         - smart_find(last.before, LastMod.snippet)[n].start > 4

(***************************************************************************)
(* CREATE_FILE on a path that exists: files of blank, padded and plain     *)
(* lines, LF or CRLF, alone in the patch or beside a FileChange on g       *)
(***************************************************************************)
MaxCreateLines == 2

CreateLines == {LineC, <<"c", "\t">>, <<" ">>, <<>>}
CreateFiles ==
    {FileBytes(lines, nl, ended) :
        lines \in SeqsOf(CreateLines, 0, MaxCreateLines), nl \in {LF, CRLF},
        ended \in BOOLEAN}
CreateContents == {LineC, Text(<<LineC, LineC>>), Text(<<LineC, <<>>, LineC>>)}
CreatePatches ==
    {<<NewChange(PathF, None, <<NewMod("CREATE_FILE", None, None, None, content)>>)>> :
        content \in CreateContents}
BesideG(patch) ==
    {patch, <<NewChange(PathG, None, <<ReplaceAC>>)>> \o patch,
     patch \o <<NewChange(PathG, None, <<ReplaceAC>>)>>,
     <<NewChange(PathG, None, <<InsertAfterCA>>)>> \o patch}

InitCreate ==
    \E bytes \in CreateFiles, patch \in CreatePatches, f \in BOOLEAN :
        \E changes \in BesideG(patch) :
            Called(DiskWith(bytes, FileAB), {}, None, changes, f, FALSE, TRUE)

NextCreate == Invoke \/ BeginChange \/ Modify \/ FinishChange \/ Report \/ WriteFile

SpecCreate == InitCreate /\ [][NextCreate]_vars

\* the CREATE_FILE modification of the patch and the file it names
CreateIdx == CHOOSE k \in 1..Len(Changes) : Changes[k].modifications[1].action = "CREATE_FILE"
CreateMod == Changes[CreateIdx].modifications[1]
CreatePath == realpath(PathJoin(project_dir, Changes[CreateIdx].file_path))
Planned(path) == \E k \in 1..Len(write_plan) : write_plan[k].file_path = path

\* the content already there equals the new content, every line stripped
\* and blank lines dropped
SameModuloBlank == StrippedLines(ToInternal(before[CreatePath])) = StrippedLines(CreateMod.content)

\* C12: a patch that is one CREATE_FILE, whose target exists with content
\* equal to the patch content after stripping every line and dropping the
\* blank lines, returns SUCCESS, plans no write and leaves the file's bytes
\* as they were.
C12_IdempotentCreate ==
    (pc = "done" /\ Len(Changes) = 1 /\ before[CreatePath] # None /\ SameModuloBlank)
        => /\ result = Success
           /\ ~Planned(CreatePath)
           /\ disk[CreatePath] = before[CreatePath]

\* the latest pass of the modification loop handled a CREATE_FILE whose
\* target existed with content that the comparison of stripped lines finds
\* different from the new content
CreateOverOther ==
    /\ Stepped
    /\ LastMod.action = "CREATE_FILE"
    /\ before[CreatePath] # None
    /\ normalize_block(ToInternal(before[CreatePath])) # normalize_block(LastMod.content)

\* C13: such a CREATE_FILE overwrites the file when what it held was empty
\* or whitespace only: the modification is applied and, once the call has
\* returned SUCCESS, the file is in the write plan and holds the new content.
\* Otherwise the call returns FAILED with FILE_EXISTS and no file on disk
\* has changed.
C13_CreateOverExisting ==
    CreateOverOther =>
        IF IsBlank(before[CreatePath])
        THEN /\ last.kind = "applied"
             /\ (pc = "done" /\ result = Success)
                    => /\ Planned(CreatePath)
                       /\ normalize_block(ToInternal(disk[CreatePath]))
                              = normalize_block(LastMod.content)
        ELSE /\ pc = "done"
             /\ result = Failed("FILE_EXISTS")
             /\ disk = before

\* FILE_EXISTS after the FileChange on g was planned
C13_Witness ==
    /\ CreateOverOther
    /\ ~IsBlank(before[CreatePath])
    /\ result = Failed("FILE_EXISTS")
    /\ write_plan # <<>>

\* C14: a call in force mode that planned every FileChange, recorded failed
\* modifications and put no file in the write plan returns FAILED with
\* ALL_CHANGES_FAILED.
C14_AllChangesFailed ==
    (pc = "done" /\ force /\ change_idx = Len(Changes) + 1
        /\ failed_changes_output # <<>> /\ write_plan = <<>>)
        => result = Failed("ALL_CHANGES_FAILED")

(***************************************************************************)
(* parse_ap3_format: the patch file, as text, to the plan                  *)
(***************************************************************************)
\* [a-z0-9]
IdChars ==
    {"a", "b", "c", "d", "e", "f", "g", "h", "i", "j", "k", "l", "m", "n", "o", "p", "q",
     "r", "s", "t", "u", "v", "w", "x", "y", "z",
     "0", "1", "2", "3", "4", "5", "6", "7", "8", "9"}

IdLength == 8

\* s.split(): the maximal runs of non-whitespace characters
RECURSIVE Tokens(_)
Tokens(s) ==
    LET t == Strip(s)
        ws == {i \in 1..Len(t) : t[i] \in Whitespace}
    IN IF t = <<>> THEN <<>>
       ELSE IF ws = {} THEN <<t>>
       ELSE LET i == CHOOSE k \in ws : \A j \in ws : k <= j
            IN <<SubSeq(t, 1, i - 1)>> \o Tokens(SubSeq(t, i + 1, Len(t)))

\* s.split(maxsplit=1) of a stripped, non-empty s: <<key>> or <<key, args>>
SplitFirst(s) ==
    LET ws == {i \in 1..Len(s) : s[i] \in Whitespace}
    IN IF ws = {} THEN <<s>>
       ELSE LET i == CHOOSE k \in ws : \A j \in ws : k <= j
            IN <<SubSeq(s, 1, i - 1), Strip(SubSeq(s, i + 1, Len(s)))>>

\* header_pattern.match(stripped_line): ^([a-z0-9]{8})\s+AP\s+3\.0$
IsHeader(stripped_line) ==
    /\ Len(stripped_line) > IdLength
    /\ \A i \in 1..IdLength : stripped_line[i] \in IdChars
    /\ stripped_line[IdLength + 1] \in Whitespace
    /\ Tokens(SubSeq(stripped_line, IdLength + 1, Len(stripped_line)))
           = <<<<"A", "P">>, <<"3", ".", "0">>>>

\* directive_pattern.match(line): ^<patch_id>\s+(.*)$, giving
\* <<match.group(1).strip()>>, or <<>> when the line does not match
DirectiveBody(line, patch_id) ==
    IF /\ StartsWith(line, patch_id)
       /\ Len(line) > Len(patch_id)
       /\ line[Len(patch_id) + 1] \in Whitespace
    THEN <<Strip(SubSeq(line, Len(patch_id) + 2, Len(line)))>>
    ELSE <<>>

\* ACTIONS in the source
ActionKeys == {"REPLACE", "INSERT_AFTER", "INSERT_BEFORE", "DELETE"}
VALUE_KEYS == {"snippet", "anchor", "content", "end_snippet"}
ARG_KEYS == {"include_leading_blank_lines", "include_trailing_blank_lines"}
NEWLINE_VALS == {<<"LF">>, <<"CRLF">>, <<"CR">>}

\* the text of a value key and of an integer key
KeyText(key) ==
    CASE key = "anchor" -> KeyAnchor
      [] key = "snippet" -> KeySnippet
      [] key = "end_snippet" -> KeyEndSnippet
      [] key = "content" -> KeyContent
      [] key = "include_leading_blank_lines" -> KeyLeading
      [] key = "include_trailing_blank_lines" -> KeyTrailing

\* int(args) for an optional sign and decimal digits: <<n>>, or <<>> when
\* int() raises ValueError
DigitValue(c) == CHOOSE d \in 0..9 : Digit(d) = <<c>>
IsDigit(c) == \E d \in 0..9 : Digit(d) = <<c>>

RECURSIVE NatValue(_)
NatValue(s) ==
    IF s = <<>> THEN 0 ELSE 10 * NatValue(SubSeq(s, 1, Len(s) - 1)) + DigitValue(s[Len(s)])

IntValue(args) ==
    LET signed == args # <<>> /\ args[1] \in {"-", "+"}
        digits == IF signed THEN Tail(args) ELSE args
    IN IF digits = <<>> \/ \E i \in 1..Len(digits) : ~IsDigit(digits[i]) THEN <<>>
       ELSE IF signed /\ args[1] = "-" THEN <<0 - NatValue(digits)>>
       ELSE <<NatValue(digits)>>

\* the value of a key: its lines without the blank ones at either end,
\* joined by "\n"
TrimValue(value_lines) ==
    LET solid == {i \in 1..Len(value_lines) : ~IsBlank(value_lines[i])}
    IN IF solid = {} THEN <<>>
       ELSE Join(LF, SubSeq(value_lines,
                            CHOOSE i \in solid : \A j \in solid : i <= j,
                            CHOOSE i \in solid : \A j \in solid : j <= i))

\* 'LF', 'CRLF' or 'CR' as the newline setting it names, None for other text
NewlineOf(args) ==
    IF \E nl \in NEWLINE_VALS : NewlineText(nl) = args
    THEN CHOOSE nl \in NEWLINE_VALS : NewlineText(nl) = args
    ELSE None

\* The parser's locals.  current_file_change, when set, is the last element
\* of data['changes'] and current_modification, when set, is the last
\* modification of that change; raised names the exception, "" for none.
ParserStart ==
    [changes |-> <<>>, current_modification |-> FALSE, reading_key |-> "",
     value_lines |-> <<>>, pending_args |-> None, raised |-> ""]

Raise(st, exception) == [st EXCEPT !.raised = exception]

\* current_file_change[key] = value, current_file_change['modifications'].append(mod)
\* and current_modification[key] = value
SetInChange(changes, key, value) == [changes EXCEPT ![Len(changes)][key] = value]
AppendMod(changes, mod) ==
    [changes EXCEPT ![Len(changes)].modifications = Append(@, mod)]
SetInMod(changes, key, value) ==
    [changes EXCEPT ![Len(changes)].modifications[Len(changes[Len(changes)].modifications)][key]
                        = value]

\* the flush of a CREATE_FILE: a new FileChange when a path follows the
\* directive, then the CREATE_FILE modification
FlushCreate(st, cleared, path, with_path) ==
    IF with_path = <<>> THEN Raise(st, "ValueError")
    ELSE [cleared EXCEPT !.changes = AppendMod(with_path,
                                         NewMod("CREATE_FILE", None, None, None, None)),
                         !.current_modification = TRUE]

\* the value read so far goes where reading_key says
FlushValue(st, cleared, value) ==
    IF st.reading_key = "path" /\ st.changes # <<>>
    THEN [cleared EXCEPT !.changes = SetInChange(st.changes, "file_path", value)]
    ELSE IF st.reading_key = "CREATE_FILE_PATH"
    THEN FlushCreate(st, cleared, value,
                     IF value # <<>>
                     THEN Append(st.changes,
                                 NewChange(value, NewlineOf(st.pending_args), <<>>))
                     ELSE st.changes)
    ELSE IF st.current_modification
    THEN [cleared EXCEPT !.changes = SetInMod(st.changes, st.reading_key, value)]
    ELSE cleared

Flush(st) ==
    IF st.reading_key = "" THEN st
    ELSE FlushValue(st, [st EXCEPT !.reading_key = "", !.value_lines = <<>>,
                                   !.pending_args = None],
                    TrimValue(st.value_lines))

\* an integer directive
ArgDirective(st, key, args) ==
    IF ~st.current_modification \/ args = None \/ IntValue(args) = <<>>
    THEN Raise(st, "ValueError")
    ELSE [st EXCEPT !.changes = SetInMod(st.changes, key, IntValue(args))]

\* a directive line, once the pending value is flushed
Directive(st, key, args) ==
    IF key = KeyFile
    THEN [st EXCEPT !.changes = Append(@, NewChange(None, NewlineOf(args), <<>>)),
                    !.current_modification = FALSE,
                    !.reading_key = "path"]
    ELSE IF \E a \in ActionKeys : ActionText(a) = key
    THEN IF st.changes = <<>> THEN Raise(st, "ValueError")
         ELSE [st EXCEPT !.changes =
                             AppendMod(@, NewMod(CHOOSE a \in ActionKeys : ActionText(a) = key,
                                                 None, None, None, None)),
                         !.current_modification = TRUE]
    ELSE IF key = ActionText("CREATE_FILE")
    THEN [st EXCEPT !.reading_key = "CREATE_FILE_PATH", !.pending_args = args]
    ELSE IF \E k \in VALUE_KEYS : KeyText(k) = key
    THEN IF args # None \/ ~st.current_modification THEN Raise(st, "ValueError")
         ELSE [st EXCEPT !.reading_key = CHOOSE k \in VALUE_KEYS : KeyText(k) = key]
    ELSE IF \E k \in ARG_KEYS : KeyText(k) = key
    THEN ArgDirective(st, CHOOSE k \in ARG_KEYS : KeyText(k) = key, args)
    ELSE IF NewlineOf(key) # None
    THEN IF st.changes = <<>> THEN Raise(st, "ValueError")
         ELSE [st EXCEPT !.changes = SetInChange(@, "newline", NewlineOf(key))]
    ELSE Raise(st, "ValueError")

\* parts = match.group(1).strip().split(maxsplit=1); parts[0] of an empty
\* list raises IndexError
DirectiveLine(flushed, body) ==
    IF flushed.raised # "" THEN flushed
    ELSE IF body = <<>> THEN Raise(flushed, "IndexError")
    ELSE Directive(flushed, SplitFirst(body)[1],
                   IF Len(SplitFirst(body)) > 1 THEN SplitFirst(body)[2] ELSE None)

\* one pass of the main parsing loop
ParseLine(st, line, match) ==
    IF match # <<>> THEN DirectiveLine(Flush(st), match[1])
    ELSE IF st.reading_key # "" THEN [st EXCEPT !.value_lines = Append(@, line)]
    ELSE IF ~IsBlank(line) THEN Raise(st, "ValueError")
    ELSE st

RECURSIVE ParseFrom(_, _, _, _)
ParseFrom(lines, i, patch_id, st) ==
    IF st.raised # "" \/ i > Len(lines) THEN st
    ELSE ParseFrom(lines, i + 1, patch_id,
                   ParseLine(st, lines[i], DirectiveBody(lines[i], patch_id)))

\* the lines that are neither blank nor comments
Meaningful(lines) ==
    {i \in 1..Len(lines) : ~IsBlank(lines[i]) /\ Strip(lines[i])[1] # "#"}

\* the flush after the main loop
FinalFlush(st) == IF st.raised # "" THEN st ELSE Flush(st)

\* the parser after its header loop, which stopped at line header
ParseBody(lines, header) ==
    IF ~IsHeader(Strip(lines[header]))
    THEN Raise(ParserStart, "ValueError")
    ELSE FinalFlush(ParseFrom(lines, header + 1, SubSeq(Strip(lines[header]), 1, IdLength),
                              ParserStart))

\* parse_ap3_format, on the text of the patch file
parse_ap3_format(patch_file) ==
    IF Meaningful(SplitLines(patch_file)) = {} THEN ParserStart
    ELSE ParseBody(SplitLines(patch_file),
                   CHOOSE i \in Meaningful(SplitLines(patch_file)) :
                       \A j \in Meaningful(SplitLines(patch_file)) : i <= j)

\* patch_id_str: the id of the first line that is an AP 3.0 header
DefaultPatchId == <<"0", "0", "0", "0", "0", "0", "0", "0">>
patch_id_str(patch_file) ==
    LET lines == SplitLines(patch_file)
        headers == {i \in 1..Len(lines) : IsHeader(Strip(lines[i]))}
    IN IF headers = {} THEN DefaultPatchId
       ELSE SubSeq(Strip(lines[CHOOSE i \in headers : \A j \in headers : i <= j]),
                   1, IdLength)

(***************************************************************************)
(* apply_patch from the text of the patch file: the parse step, then the   *)
(* planner and the commit phase                                            *)
(***************************************************************************)
\* what the parse step leaves: INVALID_PATCH_FILE for a ValueError, the
\* exception itself for any other, else the plan and the patch id
Parsed(parsed) ==
    IF parsed.raised = "ValueError"
    THEN Return(Failed("INVALID_PATCH_FILE")) /\ UNCHANGED data
    ELSE IF parsed.raised # ""
    THEN Return([status |-> "EXCEPTION", code |-> parsed.raised]) /\ UNCHANGED data
    ELSE /\ data' = [patch_file |-> data.patch_file,
                     patch_id |-> patch_id_str(data.patch_file),
                     changes |-> parsed.changes]
         /\ pc' = "start"
         /\ UNCHANGED result

\* data = parse_ap3_format(patch_file), unless an afailed.ap in the way
\* ends the call first
Parse ==
    /\ pc = "parse"
    /\ IF force /\ afailed # None
       THEN pc' = "start" /\ UNCHANGED <<data, result>>
       ELSE Parsed(parse_ap3_format(data.patch_file))
    /\ UNCHANGED <<disk, unwritable, afailed, force, dry_run, json_report, change_idx,
                   mod_idx, cur, write_plan, failed_changes_output, write_idx, run, before,
                   last, starts>>

\* the state when apply_patch is called on a patch file
CalledOnFile(d, patch_file, f) ==
    /\ disk = d
    /\ unwritable = {}
    /\ afailed = None
    /\ data = [patch_file |-> patch_file]
    /\ force = f
    /\ dry_run = FALSE
    /\ json_report = TRUE
    /\ pc = "parse"
    /\ change_idx = 0
    /\ mod_idx = 0
    /\ cur = NoLocals
    /\ write_plan = <<>>
    /\ failed_changes_output = <<>>
    /\ write_idx = 0
    /\ result = NoResult
    /\ run = 1
    /\ before = d
    /\ last = NoStep
    /\ starts = <<>>

\* lines of patch files
MaxPrefixLines == 2

HeaderLine == PatchId \o <<" ", "A", "P", " ", "3", ".", "0">>
OtherIdHeader == <<"z", "z", "z", "z", "z", "z", "z", "9">> \o <<" ", "A", "P", " ", "3", ".", "0">>
CommentLine == <<"#", " ", "c">>
DirectiveOf(word) == PatchId \o <<" ">> \o word
ArgDirectiveOf(word, arg) == PatchId \o <<" ">> \o word \o <<" ">> \o arg

PrefixLines == {<<>>, CommentLine, HeaderLine, OtherIdHeader, LineXA}

\* one REPLACE that applies
BodyReplace ==
    <<DirectiveOf(KeyFile), PathF, DirectiveOf(ActionText("REPLACE")),
      DirectiveOf(KeySnippet), LineA, DirectiveOf(KeyContent), LineC>>
\* on g an INSERT_AFTER that fails and a REPLACE that applies, on f a REPLACE
\* that fails: values of several lines, blank lines, padded lines, counts
BodyPartial ==
    <<ArgDirectiveOf(KeyFile, NewlineText(<<"CRLF">>)), <<>>, PathG, <<>>,
      DirectiveOf(ActionText("INSERT_AFTER")),
      DirectiveOf(KeySnippet), <<>>, LineXA, <<" ">>, LineIndentA, <<>>,
      DirectiveOf(KeyContent),
      ArgDirectiveOf(KeyLeading, <<"1">>), ArgDirectiveOf(KeyTrailing, <<"-", "2">>),
      DirectiveOf(ActionText("REPLACE")),
      DirectiveOf(KeySnippet), LineA, DirectiveOf(KeyContent), LineC,
      DirectiveOf(KeyFile), PathF,
      DirectiveOf(ActionText("REPLACE")),
      DirectiveOf(KeyAnchor), LineXA, CommentLine,
      DirectiveOf(KeySnippet), LineA,
      DirectiveOf(KeyEndSnippet), LineBTab,
      DirectiveOf(KeyContent), LineC, LineC>>
BodyCreate ==
    <<DirectiveOf(ActionText("CREATE_FILE")), PathH, DirectiveOf(KeyContent), LineC>>
BodyActionFirst == <<DirectiveOf(ActionText("DELETE")), DirectiveOf(KeySnippet), LineA>>
BodyUnknown == <<DirectiveOf(KeyFile), PathF, DirectiveOf(<<"M", "O", "V", "E">>)>>
BodyBare == <<DirectiveOf(KeyFile), PathF, PatchId \o <<" ">>>>
\* after a REPLACE on f that applies, a FileChange that ends the call: a
\* modification without locator, a file that is not there, a CREATE_FILE on
\* a file that is, a path out of the project, a directive nobody knows
BodyNoLocator ==
    BodyReplace \o <<DirectiveOf(KeyFile), PathG, DirectiveOf(ActionText("REPLACE")),
                     DirectiveOf(KeyContent), LineC>>
BodyNotFound ==
    BodyReplace \o <<DirectiveOf(KeyFile), PathH, DirectiveOf(ActionText("DELETE")),
                     DirectiveOf(KeySnippet), LineA>>
BodyExists ==
    BodyReplace \o <<DirectiveOf(ActionText("CREATE_FILE")), PathG,
                     DirectiveOf(KeyContent), LineC>>
BodyOutside ==
    BodyReplace \o <<DirectiveOf(KeyFile), <<".", ".", "/", "o", "/", "f">>,
                     DirectiveOf(ActionText("DELETE")), DirectiveOf(KeySnippet), LineA>>
BodyThenUnknown == BodyReplace \o <<DirectiveOf(<<"M", "O", "V", "E">>)>>
\* directives with an argument: on an action and on FILE, and on a value key
BodyActionArg ==
    <<ArgDirectiveOf(KeyFile, LineXA), PathF, ArgDirectiveOf(ActionText("REPLACE"), LineXA),
      DirectiveOf(KeySnippet), LineA, DirectiveOf(KeyContent), LineC>>
BodyValueArg ==
    <<DirectiveOf(KeyFile), PathF, DirectiveOf(ActionText("REPLACE")),
      ArgDirectiveOf(KeySnippet, LineA), DirectiveOf(KeyContent), LineC>>

PatchBodies ==
    {<<>>, BodyReplace, BodyPartial, BodyCreate, BodyActionFirst, BodyUnknown, BodyBare,
     BodyNoLocator, BodyNotFound, BodyExists, BodyOutside, BodyThenUnknown,
     BodyActionArg, BodyValueArg}

PatchTexts ==
    {FileBytes(prefix \o body, LF, TRUE) :
        prefix \in SeqsOf(PrefixLines, 0, MaxPrefixLines), body \in PatchBodies}
    \cup {<<>>}

InitParse ==
    \E patch_file \in PatchTexts, f \in BOOLEAN :
        CalledOnFile(DiskWith(FileAB, FileAB), patch_file, f)

NextParse == Parse \/ Invoke \/ BeginChange \/ Modify \/ FinishChange \/ Report \/ WriteFile

SpecParse == InitParse /\ [][NextParse]_vars

\* an AP 3.0 header: eight lower-case hexadecimal digits, AP, 3.0
HexDigits ==
    {"0", "1", "2", "3", "4", "5", "6", "7", "8", "9", "a", "b", "c", "d", "e", "f"}
ValidHeader(line) ==
    /\ Len(Tokens(line)) = 3
    /\ Len(Tokens(line)[1]) = 8
    /\ \A i \in 1..8 : Tokens(line)[1][i] \in HexDigits
    /\ Tokens(line)[2] = <<"A", "P">>
    /\ Tokens(line)[3] = <<"3", ".", "0">>

\* the first line of the patch file that is neither blank nor a comment,
\* in a sequence of at most one line
FirstMeaningful(lines) ==
    IF Meaningful(lines) = {} THEN <<>>
    ELSE <<lines[CHOOSE i \in Meaningful(lines) : \A j \in Meaningful(lines) : i <= j]>>

\* C16: a call on a patch file whose first non-blank, non-comment line is
\* not a valid AP 3.0 header, or that has no such line, returns FAILED with
\* INVALID_PATCH_FILE.
C16_InvalidHeader ==
    (pc = "done"
        /\ \A n \in 1..Len(FirstMeaningful(SplitLines(data.patch_file))) :
               ~ValidHeader(FirstMeaningful(SplitLines(data.patch_file))[n]))
        => result = Failed("INVALID_PATCH_FILE")

\* C17: parsing the afailed.ap that a call in force mode wrote gives the
\* list of failed changes that was serialised: the same file paths and
\* newline settings in the same order and, for every modification, the same
\* action, anchor, snippet, end_snippet, content and blank-line counts.
C17_RoundTrip ==
    (pc = "done" /\ force /\ afailed # None)
        => /\ parse_ap3_format(afailed).raised = ""
           /\ parse_ap3_format(afailed).changes = failed_changes_output

\* an afailed.ap of two FileChanges, one with a newline setting, holding a
\* snippet of several lines and both blank-line counts
C17_Witness ==
    /\ pc = "done"
    /\ force
    /\ afailed # None
    /\ Len(failed_changes_output) = 2
    /\ failed_changes_output[1].newline = <<"CRLF">>
    /\ Len(SplitLines(failed_changes_output[1].modifications[1].snippet)) = 3
    /\ failed_changes_output[1].modifications[1].include_trailing_blank_lines = <<-2>>
    /\ failed_changes_output[2].modifications[1].anchor # None

\* the error codes that end the planning of a patch
FatalCodes ==
    {"INVALID_PATCH_FILE", "INVALID_FILE_PATH", "FILE_NOT_FOUND", "FILE_EXISTS",
     "INVALID_MODIFICATION"}

\* C15: with or without force, no file is written while FileChanges are still
\* being parsed and planned, and a call that a FileChange ends with
\* INVALID_PATCH_FILE, INVALID_FILE_PATH, FILE_NOT_FOUND, FILE_EXISTS or
\* INVALID_MODIFICATION returns FAILED with every file as it was before the
\* call, those planned earlier in the patch included.
C15_NoWriteBeforePlanned ==
    /\ pc \in {"parse", "start", "change", "mod", "report"} => disk = before
    /\ (Stepped /\ last.kind = "fatal")
           => pc = "done" /\ result.status = "FAILED" /\ result.code = last.code
    /\ (pc = "done" /\ result.code \in FatalCodes)
           => result.status = "FAILED" /\ disk = before

\* in force mode, INVALID_MODIFICATION after the write of f was planned
C15_Witness ==
    /\ pc = "done"
    /\ force
    /\ result.status = "FAILED"
    /\ result.code = "INVALID_MODIFICATION"
    /\ write_plan # <<>>
    /\ disk = before

\* C18: a file that existed before the call is in the write plan only with
\* a final content that differs from its bytes on disk, whatever its
\* line-ending style; once every FileChange is planned, a file that did not
\* exist is in the plan.
C18_UnchangedNotPlanned ==
    /\ \A k \in 1..Len(write_plan) :
           before[write_plan[k].file_path] # None
               => write_plan[k].final_content # before[write_plan[k].file_path]
    /\ (pc = "done" /\ result = Success)
           => \A p \in TargetPaths : before[p] = None => Planned(p)

EndsWithTerminator(bytes) == bytes # <<>> /\ bytes[Len(bytes)] \in {"\n", "\r"}

\* a first call that returned SUCCESS on a patch of one FileChange, on a
\* file that existed, without CREATE_FILE
PatchedInPlace ==
    /\ pc = "done"
    /\ run = 1
    /\ result = Success
    /\ ~dry_run
    /\ Len(Changes) = 1
    /\ before[TargetPath(1)] # None
    /\ \A k \in 1..Len(Changes[1].modifications) :
           Changes[1].modifications[k].action \in ActionKeys

\* C19: after such a call the file, when not empty, ends with a line
\* terminator exactly when it did before the call.
C19_TrailingNewline ==
    (PatchedInPlace /\ disk[TargetPath(1)] # <<>>)
        => (EndsWithTerminator(disk[TargetPath(1)])
                <=> EndsWithTerminator(before[TargetPath(1)]))

\* what the pass of the modification loop that was just made would have
\* left, had the content of its modification been c
WithContent(c) ==
    ApplyModification(last.before, [LastMod EXCEPT !.content = c], last.cursor_before)

\* C20: the outcome of a DELETE does not depend on its content: with no
\* content or any other content in the same modification, the pass ends the
\* same way and leaves the same buffer.
C20_DeleteIgnoresContent ==
    (Stepped /\ LastMod.action = "DELETE")
        => \A c \in {None, LineA, LineB, LineC} :
               /\ WithContent(c).kind = last.kind
               /\ WithContent(c).code = last.code
               /\ WithContent(c).buffer = last.buffer

(***************************************************************************)
(* Deep-scope resolution: one anchored modification against buffers long   *)
(* enough to hold an anchor twice with other lines between and after       *)
(***************************************************************************)
MaxScopeLines == 4

ScopeLines == {LineA, LineB, LineC, <<>>}
ScopeBuffers ==
    {FileBytes(lines, LF, TRUE) : lines \in SeqsOf(ScopeLines, 1, MaxScopeLines)}

ScopeMods ==
    {NewMod("DELETE", anchor, snippet, None, None) :
        anchor \in {LineA, TextAB}, snippet \in {LineA, LineB}}

InitScope ==
    \E bytes \in ScopeBuffers, m \in ScopeMods,
       prior \in {<<>>, <<Touch(LineB)>>, <<Touch(LineC)>>} :
        Reading(DiskWith(bytes, None), <<NewChange(PathF, None, prior \o <<m>>)>>)

NextScope == Modify

SpecScope == InitScope /\ [][NextScope]_vars

\* the anchor occurrences the cursor filter left, for the latest pass
ScopeAnchors ==
    AnchorCursorFilter(smart_find(last.before, LastMod.anchor), last.cursor_before)

ScopeCase == Stepped /\ Truthy(LastMod.anchor) /\ Len(ScopeAnchors) > 1

\* the start offsets of the snippet occurrences at or after offset pos
SnippetStartsFrom(pos) ==
    LET occ == smart_find(last.before, LastMod.snippet)
    IN {occ[k].start : k \in {j \in 1..Len(occ) : occ[j].start >= pos}}

\* occurrence number i of ScopeAnchors is a valid scope
ValidScope(i) ==
    LET a == ScopeAnchors[i]
        after == SnippetStartsFrom(a.end)
    IN /\ after # {}
       /\ LET first == CHOOSE s \in after : \A t \in after : s <= t
          IN \A k \in (1..Len(ScopeAnchors)) \ {i} :
                ~(ScopeAnchors[k].start > a.end /\ ScopeAnchors[k].start < first)

ValidScopes == {i \in 1..Len(ScopeAnchors) : ValidScope(i)}

\* the locator's answer, as the latest pass recorded it
LocatorAnswer ==
    IF last.code = "OK" THEN Located(last.loc_start, last.loc_end) ELSE Error(last.code)

LatestStart == IF starts = <<>> THEN 0 ELSE starts[Len(starts)]

\* the latest pass belongs to the FileChange whose loop is running
InSameChange == pc = "mod" /\ Stepped /\ last.change_idx = change_idx

Expanded ==
    Stepped /\ last.kind \in {"noop", "applied"} /\ LastMod.action # "CREATE_FILE"

\* the text the expansion added before and after the located range
LeadingAdded == Slice(last.before, last.start_pos, last.loc_start)
TrailingAdded == Slice(last.before, last.loc_end, last.end_pos)

AllBlank(lines) == \A k \in 1..Len(lines) : IsBlank(lines[k])

\* the line that ends at offset pos, and the line that begins there
LineBefore(content, pos) ==
    LET lines == SplitLines(Slice(content, 0, pos)) IN lines[Len(lines)]
LineAfter(content, pos) == SplitLines(Slice(content, pos, Len(content)))[1]

\* C23: the expanded range contains the located range, what it adds on either
\* side is entirely blank lines, at most include_leading_blank_lines of them
\* before and include_trailing_blank_lines after, and it grows until that
\* count is reached, a non-blank line is next or the file boundary is reached;
\* also for a range located at offset 0.
C23_Expansion ==
    Expanded =>
        /\ last.start_pos <= last.loc_start
        /\ last.loc_end <= last.end_pos
        /\ AllBlank(SplitLines(LeadingAdded))
        /\ AllBlank(SplitLines(TrailingAdded))
        /\ Len(SplitLines(LeadingAdded)) <= CountOf(LastMod.include_leading_blank_lines)
        /\ Len(SplitLines(TrailingAdded)) <= CountOf(LastMod.include_trailing_blank_lines)
        /\ Len(SplitLines(LeadingAdded)) < CountOf(LastMod.include_leading_blank_lines)
               => \/ last.start_pos = 0
                  \/ ~IsBlank(LineBefore(last.before, last.start_pos))
        /\ Len(SplitLines(TrailingAdded)) < CountOf(LastMod.include_trailing_blank_lines)
               => \/ last.end_pos = Len(last.before)
                  \/ ~IsBlank(LineAfter(last.before, last.end_pos))

(***************************************************************************)
(* Heuristics and idempotency gates: one modification with multi-line       *)
(* snippets and contents against buffers with blank lines                  *)
(***************************************************************************)
MaxGateLines == 3

TextAGapB == Text(<<LineA, <<>>, LineB>>)

GateLines == {LineA, LineB, LineXA, <<>>}
GateBuffers ==
    {FileBytes(lines, LF, TRUE) : lines \in SeqsOf(GateLines, 1, MaxGateLines)}

GateMods ==
    {NewMod(action, None, snippet, end_snippet, content) :
        action \in {"REPLACE", "INSERT_AFTER", "INSERT_BEFORE", "DELETE"},
        snippet \in {LineA, TextAB, LineXA},
        end_snippet \in {None, LineA, LineB},
        content \in {LineB, TextAB, TextAGapB, LineC}}

InitGate ==
    \E bytes \in GateBuffers, m \in GateMods :
        Reading(DiskWith(bytes, None), <<NewChange(PathF, None, <<m>>)>>)

NextGate == Modify

SpecGate == InitGate /\ [][NextGate]_vars

\* split into lines, strip each, drop every blank line, join with LF
NormalisedNoBlank(text) == Join(LF, StrippedLines(text))

\* the gate of the latest pass as specified, over the expanded range
SpecifiedGate ==
    LET content == NormalisedNoBlank(LastMod.content)
    IN CASE LastMod.action = "REPLACE" ->
              NormalisedNoBlank(Slice(last.before, last.start_pos, last.end_pos)) = content
         [] LastMod.action = "INSERT_AFTER" ->
              StartsWith(NormalisedNoBlank(Slice(last.before, last.end_pos,
                                                 Len(last.before))), content)
         [] LastMod.action = "INSERT_BEFORE" ->
              EndsWith(NormalisedNoBlank(Slice(last.before, 0, last.start_pos)), content)
         [] OTHER -> FALSE

\* C24: a located REPLACE, INSERT_AFTER or INSERT_BEFORE is skipped, the
\* buffer left as it was and no error raised, exactly when the text of the
\* range (REPLACE), the text after it (INSERT_AFTER, as a prefix) or the text
\* before it (INSERT_BEFORE, as a suffix) equals the content after both are
\* split into lines, each line stripped and every blank line dropped.
C24_Gates ==
    (Expanded /\ LastMod.action \in {"REPLACE", "INSERT_AFTER", "INSERT_BEFORE"})
        => /\ last.kind = "noop" <=> SpecifiedGate
           /\ last.kind = "noop" => last.buffer = last.before

\* the latest pass worked on a modification with both snippet and end_snippet
BothLocators ==
    /\ Stepped
    /\ LastMod.action # "CREATE_FILE"
    /\ Truthy(LastMod.snippet)
    /\ Truthy(LastMod.end_snippet)

\* sequence t is a suffix of sequence s
IsSuffix(s, t) == Len(t) <= Len(s) /\ SubSeq(s, Len(s) - Len(t) + 1, Len(s)) = t

\* the two conditions under which the range locator gives way to the point
\* locator, as specified
EndEqualsContent ==
    normalize_block(LastMod.end_snippet) = normalize_block(OrEmpty(LastMod.content))
EndClosesSnippet ==
    IsSuffix(StrippedLines(LastMod.snippet), StrippedLines(LastMod.end_snippet))

\* what the point locator on snippet answers, and what the range form does
PointAnswer ==
    find_target_in_content(last.before, LastMod.anchor, LastMod.snippet, last.cursor_before)
RangeAnswer ==
    LocateWith(last.before, LastMod, LastMod.end_snippet, last.cursor_before)

\* C27: a modification with both snippet and end_snippet is located with the
\* point locator on snippet exactly when end_snippet equals content after
\* line-wise normalisation or the stripped lines of snippet end with the
\* stripped lines of end_snippet; in every other case it is located (or
\* rejected) as a range.
C27_Heuristics ==
    BothLocators =>
        LocatorAnswer = IF EndEqualsContent \/ EndClosesSnippet
                        THEN PointAnswer ELSE RangeAnswer

NotFoundCodes == {"ANCHOR_NOT_FOUND", "SNIPPET_NOT_FOUND", "END_SNIPPET_NOT_FOUND"}
AmbiguousCodes == {"AMBIGUOUS_ANCHOR", "AMBIGUOUS_MATCH"}

\* the locator of the latest pass returned an error
LocatorFailed == Stepped /\ last.code \in (NotFoundCodes \cup AmbiguousCodes)

\* the content of the latest modification, searched as a snippet under the
\* same anchor with cursor 0, is found
ContentLocatable ==
    find_target_in_content(last.before, LastMod.anchor, OrEmpty(LastMod.content), 0).code = "OK"

\* the latest pass was skipped without error: the loop goes on with the
\* buffer as it was and nothing is recorded
SkippedQuietly ==
    /\ last.kind = "skipped"
    /\ last.buffer = last.before
    /\ pc = "mod"
    /\ result = NoResult
    /\ failed_changes_output = <<>>

\* the latest pass ended the run with the locator's error
FailedWithCode == last.kind = "failed" /\ pc = "done" /\ result = Failed(last.code)

PatchLines == SplitLines(data.patch_file)
HeaderIndex == CHOOSE i \in Meaningful(PatchLines) : \A j \in Meaningful(PatchLines) : i <= j
HeadedPatch == Meaningful(PatchLines) # {} /\ ValidHeader(PatchLines[HeaderIndex])

\* the directive lines under the header: what follows the directive prefix
DirectiveBodies ==
    {DirectiveBody(PatchLines[i], SubSeq(Strip(PatchLines[HeaderIndex]), 1, IdLength))[1] :
        i \in {j \in (HeaderIndex + 1)..Len(PatchLines) :
                  DirectiveBody(PatchLines[j],
                                SubSeq(Strip(PatchLines[HeaderIndex]), 1, IdLength)) # <<>>}}

\* a directive with an argument that its keyword does not accept
UnexpectedArgument(body) ==
    /\ body # <<>>
    /\ Len(SplitFirst(body)) > 1
    /\ LET key == SplitFirst(body)[1]
           args == SplitFirst(body)[2]
       IN \/ \E a \in ActionKeys : ActionText(a) = key
          \/ \E k \in VALUE_KEYS : KeyText(k) = key
          \/ \E nl \in NEWLINE_VALS : NewlineText(nl) = key
          \/ /\ key \in {KeyFile, ActionText("CREATE_FILE")}
             /\ NewlineOf(args) = None

\* C26: a call on a patch file that has, under a valid header, a directive
\* line with an argument its keyword does not accept (any argument on an
\* action, a value key or a newline directive, an argument other than LF,
\* CRLF or CR on FILE or CREATE_FILE) returns FAILED with INVALID_PATCH_FILE.
C26_UnexpectedArgument ==
    (pc = "done" /\ HeadedPatch /\ \E body \in DirectiveBodies : UnexpectedArgument(body))
        => result = Failed("INVALID_PATCH_FILE")

\* C30: whatever the text of the patch file, a call ends with a Report whose
\* status is SUCCESS or FAILED, never with an exception; a line that begins
\* with the directive prefix and is not a well-formed directive, the prefix
\* followed by whitespace alone included, gives FAILED with INVALID_PATCH_FILE.
C30_AlwaysReports ==
    /\ pc = "done" => result.status \in {"SUCCESS", "FAILED"}
    /\ (pc = "done" /\ HeadedPatch /\ <<>> \in DirectiveBodies)
           => result = Failed("INVALID_PATCH_FILE")

(***************************************************************************)
(* Several FileChange blocks in one patch, on the same file or on two      *)
(***************************************************************************)
RepeatMods == {ReplaceAC, ReplaceBC, InsertAfterAC, DeleteA}
RepeatChanges == {NewChange(p, None, <<m>>) : p \in {PathF, PathG}, m \in RepeatMods}

InitRepeat ==
    \E changes \in SeqsOf(RepeatChanges, 2, MaxChanges) :
        Called(DiskWith(FileAB, FileAB), {}, None, changes, FALSE, FALSE, TRUE)

NextRepeat == Invoke \/ BeginChange \/ Modify \/ FinishChange \/ Report \/ WriteFile

SpecRepeat == InitRepeat /\ [][NextRepeat]_vars

\* The modifications of one FileChange applied in order to a buffer, as the
\* modification loop applies them; CREATE_FILE ends the loop.
RECURSIVE ModsInOrder(_, _, _, _, _)
ModsInOrder(buffer, cursor, mods, i, existing) ==
    IF i > Len(mods) THEN buffer
    ELSE IF mods[i].action = "CREATE_FILE"
    THEN CreateFile(buffer, mods[i], existing).buffer
    ELSE ModsInOrder(ApplyModification(buffer, mods[i], cursor).buffer,
                     ApplyModification(buffer, mods[i], cursor).cursor,
                     mods, i + 1, existing)

\* the bytes of a file after one FileChange worked on the bytes given: the
\* final content when it differs from the content read, else the bytes
ChangeInOrder(bytes, change, file_path) ==
    LET opened == Opened(change.file_path, file_path, change.newline, bytes)
        final == final_content(ModsInOrder(opened.working_content, 0,
                                           change.modifications, 1, bytes),
                               opened.newline_char)
    IN IF final = opened.original_content /\ bytes # None THEN bytes ELSE final

\* the bytes of the file at path after the FileChanges k.. of the patch that
\* name it, each working on what the one before left
RECURSIVE PatchInOrder(_, _, _)
PatchInOrder(bytes, path, k) ==
    IF k > Len(Changes) THEN bytes
    ELSE PatchInOrder(IF realpath(PathJoin(project_dir, Changes[k].file_path)) = path
                      THEN ChangeInOrder(bytes, Changes[k], path) ELSE bytes,
                      path, k + 1)

\* C28: after a call without force and without dry_run that returned SUCCESS,
\* every file the patch names holds the result of applying to its bytes of
\* before the call, in patch order, all modifications addressed to it, also
\* when several FileChange blocks name the same file: a later block works on
\* what the earlier ones left.
C28_AllApplied ==
    (pc = "done" /\ run = 1 /\ result = Success /\ ~force /\ ~dry_run)
        => \A p \in TargetPaths : disk[p] = PatchInOrder(before[p], p, 1)

\* the latest pass applied an INSERT_AFTER with non-empty content
Inserted ==
    /\ Stepped
    /\ last.kind = "applied"
    /\ LastMod.action = "INSERT_AFTER"
    /\ Truthy(LastMod.content)

\* the number of lines of the buffer up to the end of the matched range
LinesThroughRange == Len(SplitLines(Slice(last.before, 0, last.end_pos)))

\* C29: after a located INSERT_AFTER with non-empty content that the gate did
\* not skip, the lines of the buffer are the lines it had through the last
\* line of the matched range, unmodified, then the lines of the content as
\* lines of their own (indentation aside), then the lines it had after the
\* range, unmodified; also when the range ends at the end of a buffer without
\* a final line terminator.
C29_InsertAfter ==
    Inserted =>
        LET old == SplitLines(last.before)
            new == SplitLines(last.buffer)
            n == LinesThroughRange
            k == Len(SplitLines(LastMod.content))
        IN /\ Len(new) = Len(old) + k
           /\ SubSeq(new, 1, n) = SubSeq(old, 1, n)
           /\ StripEach(SubSeq(new, n + 1, n + k)) = StripEach(SplitLines(LastMod.content))
           /\ SubSeq(new, n + k + 1, Len(new)) = SubSeq(old, n + 1, Len(old))

====
